---- MODULE Spec2Model ----
(***************************************************************************)
(* Model of the real-time hub of the form builder backend (package         *)
(* websocket: Hub, Client, HandleWebSocket, readPump, writePump) together  *)
(* with its callers in the controllers.  Every goroutine is a process of   *)
(* the model and every statement that touches shared state (the Clients    *)
(* map, a client's FormID, a client's Send channel, the hub's channels) is *)
(* one step, so that the interleavings of the hub's Run loop with          *)
(* BroadcastToForm, which runs on the caller's goroutine, are states of    *)
(* the model.                                                              *)
(***************************************************************************)
EXTENDS Integers, Sequences, FiniteSets, TLC

\* ---------------------------------------------------------------- bounds
\* Size of the universe of connections (each accept makes one Client) and of
\* the goroutines that may be inside BroadcastToForm at once (HTTP handlers
\* of SubmitResponse and the updateAnalytics goroutines).  What a run uses of
\* them, and what its environment does, is set by the run's limits (lim).
NConns == 2
NProcs == 2

Conns == 1..NConns
Procs == 1..NProcs
\* Form identifiers used as topics; NoTopic is the zero value of Client.FormID.
Topics == {"A", "B"}
NoTopic == ""
NoConn == 0

\* ------------------------------------------------------------- messages
\* A serialized Message; id stands for the payload (Data), distinct per call.
EventMsg(formID, id) == [type |-> "event", form_id |-> formID, id |-> id]
GreetingMsg == [type |-> "ws_greeting", form_id |-> NoTopic, id |-> 0]
PongMsg == [type |-> "pong", form_id |-> NoTopic, id |-> 0]

VARIABLES
    Clients,     \* Hub.Clients: the set of keys of the map
    FormID,      \* Client.FormID of each connection
    Send,        \* contents of each Client.Send channel
    sendClosed,  \* whether close(client.Send) has run
    connClosed,  \* whether c.Conn.Close() has run
    wire,        \* text messages written to the transport by writePump
    rpc,         \* position of HandleWebSocket / readPump of each connection
    pendTopic,   \* the string readPump is storing into FormID
    wpc,         \* position of writePump of each connection
    hubPc,       \* position of Hub.Run
    hubArg,      \* the client received from Register / Unregister
    hubMsg,      \* the message received from Broadcast
    hubSnap,     \* keys of the map when Run's range loop started
    hubSeen,     \* keys the range loop of Run has produced
    hubCur,      \* the loop variable client of Run's range loop
    bpc,         \* position of each BroadcastToForm caller
    bmsg,        \* jsonData of the call
    bsnap,       \* keys of the map when the call's range loop started
    bseen,       \* keys the call's range loop has produced
    bcur,        \* the loop variable client of the call
    gwait,       \* messages of the BroadcastGeneral callers blocked on h.Broadcast <-
    nextId,      \* number of broadcast calls made so far
    nframes,     \* number of text frames read so far
    nwerrs,      \* number of transport write failures so far
    ncloses,     \* number of peer closes and read timeouts so far
    regDone,     \* history: the hub has run h.Clients[client] = true for it
    unregDone,   \* history: how the hub's Unregister branch ended for it:
                 \* "no" (not run), "removed" or "absent"
    prevTopic,   \* history: FormID before the last store into it
    nskipped,    \* history: number of the frames read that were no well-formed command
    panicked,    \* the process died on a runtime panic or fatal error
    lim,         \* what the environment may do over the run (never changes)
    \* --- the browser's WebSocketClient (frontend)
    wsState,     \* readyState of each WebSocket the client has made
    socket,      \* WebSocketClient.socket: the current WebSocket, or none
    reconnectAttempts,   \* WebSocketClient.reconnectAttempts
    isConnected, \* WebSocketClient.isConnected
    timers,      \* pending setTimeout(() => this.connect(), ...) callbacks
    nsock,       \* number of WebSockets made so far
    ncalls,      \* number of calls of connect() and disconnect() by the page
    sinceOpen,   \* history: reconnects scheduled since the last onopen
    \* --- the analytics of ResponseController (backend)
    fields,      \* form.Fields of the form whose analytics are computed
    db,          \* the form's documents in responseCollection, in insertion order
    dayLen,      \* hours of the local calendar day k days before today
    nowT,        \* time.Now(), in hours since today's local midnight
    apc,         \* position of calculateAnalytics
    total,       \* total of calculateAnalytics
    recent,      \* count24h, countWeek, countMonth
    trends,      \* trends of calculateResponseTrends
    completion,  \* what calculateCompletionMetrics returned
    fidx,        \* index of the field the loop over fields is at
    fcount,      \* fieldResponseCount of calculateEnhancedFieldAnalytics
    fieldAnalytics,  \* fieldAnalytics of calculateAnalytics
    ninserts,    \* number of documents inserted during the computation
    \* --- the read deadline of one connection (readPump), in seconds
    hbClock,     \* time.Now()
    hbDeadline,  \* the read deadline set on c.Conn
    hbPc,        \* position of readPump: "none", "read", or "unregister"
    hbKind,      \* history: the kind of the last frame received
    hbFrames,    \* history: number of frames received
    hbLastAny,   \* history: when the last frame of any kind was received
    hbLastData,  \* history: when the last data frame or pong was received
    \* --- SubmitResponse (backend)
    spc,         \* position of the SubmitResponse handler
    sreq,        \* the request it handles
    upc,         \* responses whose updateAnalytics goroutine has not broadcast yet
    nsub         \* number of requests handled so far

vars == <<Clients, FormID, Send, sendClosed, connClosed, wire, rpc, pendTopic,
          wpc, hubPc, hubArg, hubMsg, hubSnap, hubSeen, hubCur, bpc, bmsg,
          bsnap, bseen, bcur, gwait, nextId, nframes, nwerrs, ncloses, regDone,
          unregDone, prevTopic, panicked, lim, nskipped, wsState, socket,
          reconnectAttempts, isConnected, timers, nsock, ncalls, sinceOpen,
          fields, db, dayLen, nowT, apc, total, recent, trends, completion,
          fidx, fcount, fieldAnalytics, ninserts, hbClock, hbDeadline, hbPc,
          hbKind, hbFrames, hbLastAny, hbLastData, spc, sreq, upc, nsub>>

connVars == <<FormID, Send, sendClosed, connClosed, wire, rpc, pendTopic, wpc>>
hubVars == <<hubPc, hubArg, hubMsg, hubSnap, hubSeen, hubCur>>
procVars == <<bpc, bmsg, bsnap, bseen, bcur>>
histVars == <<regDone, unregDone, prevTopic>>
envVars == <<nextId, nframes, nwerrs, ncloses>>
clientVars == <<wsState, socket, reconnectAttempts, isConnected, timers,
                nsock, ncalls, sinceOpen>>
aggVars == <<fields, db, dayLen, nowT, apc, total, recent, trends, completion,
             fidx, fcount, fieldAnalytics, ninserts>>
hbVars == <<hbClock, hbDeadline, hbPc, hbKind, hbFrames, hbLastAny, hbLastData>>
subVars == <<spc, sreq, upc, nsub>>
appVars == <<clientVars, aggVars, hbVars, subVars>>
hubSideVarsNoSub == <<Clients, connVars, hubVars, procVars, gwait, envVars,
                      histVars, panicked, lim, nskipped, hbVars>>
hubSideVars == <<hubSideVarsNoSub, subVars>>
serverVars == <<hubSideVars, aggVars>>

NoMsg == [type |-> "none", form_id |-> NoTopic, id |-> 0]

\* The state after NewHub() and go hub.Run(): no client, Run at its select.
\* l gives the limits of the run:
\*   conns   connections accepted            procs   BroadcastToForm callers
\*   cap     capacity of a Send channel (stands for the 256 of
\*           make(chan []byte, 256))
\*   events  broadcast calls (BroadcastToForm and BroadcastGeneral)
\*   frames  inbound frames read, all connections together
\*   werrs   transport write failures
\*   closes  connections whose peer closes or falls silent
HubInit(l) ==
    /\ lim = l
    /\ Clients = {}
    /\ FormID = [c \in Conns |-> NoTopic]
    /\ Send = [c \in Conns |-> <<>>]
    /\ sendClosed = [c \in Conns |-> FALSE]
    /\ connClosed = [c \in Conns |-> FALSE]
    /\ wire = [c \in Conns |-> <<>>]
    /\ rpc = [c \in Conns |-> "none"]
    /\ pendTopic = [c \in Conns |-> NoTopic]
    /\ wpc = [c \in Conns |-> "none"]
    /\ hubPc = "select"
    /\ hubArg = NoConn
    /\ hubMsg = NoMsg
    /\ hubSnap = {}
    /\ hubSeen = {}
    /\ hubCur = NoConn
    /\ bpc = [p \in Procs |-> "idle"]
    /\ bmsg = [p \in Procs |-> NoMsg]
    /\ bsnap = [p \in Procs |-> {}]
    /\ bseen = [p \in Procs |-> {}]
    /\ bcur = [p \in Procs |-> NoConn]
    /\ gwait = <<>>
    /\ nextId = 0
    /\ nframes = 0
    /\ nskipped = 0
    /\ nwerrs = 0
    /\ ncloses = 0
    /\ regDone = [c \in Conns |-> FALSE]
    /\ unregDone = [c \in Conns |-> "no"]
    /\ prevTopic = [c \in Conns |-> NoTopic]
    /\ panicked = FALSE

\* Sockets are numbered in the order in which new WebSocket(...) makes them.
MaxSockets == 6
MaxCalls == 3
Sockets == 1..MaxSockets
NoSocket == 0

\* The state of the exported wsClient = new WebSocketClient().
ClientInit ==
    /\ wsState = [s \in Sockets |-> "none"]
    /\ socket = NoSocket
    /\ reconnectAttempts = 0
    /\ isConnected = FALSE
    /\ timers = 0
    /\ nsock = 0
    /\ ncalls = 0
    /\ sinceOpen = 0

\* A number as encoding/json and bson hold it (a float64), kept exact as a
\* fraction num / den with den > 0.
Rat(n, d) == [num |-> n, den |-> d]
Zero == Rat(0, 1)
Hundred == Rat(100, 1)
RatEq(a, b) == a.num * b.den = b.num * a.den
RatLe(a, b) == a.num * b.den <= b.num * a.den
\* float64(n) / float64(d) * 100
Percent(n, d) == Rat(n * 100, d)
\* 100 - a
HundredMinus(a) == Rat(100 * a.den - a.num, a.den)

\* No analytics are being computed, for a form without fields or responses, on
\* a server whose days all have 24 hours.
Days == 0..7
AggIdle ==
    /\ fields = <<>>
    /\ db = <<>>
    /\ dayLen = [k \in Days |-> 24]
    /\ nowT = 0
    /\ apc = "idle"
    /\ total = 0
    /\ recent = <<0, 0, 0>>
    /\ trends = <<>>
    /\ completion = [rate |-> Zero, avgTime |-> Zero]
    /\ fidx = 0
    /\ fcount = 0
    /\ fieldAnalytics = <<>>
    /\ ninserts = 0

\* No read deadline is being followed.
HbIdle ==
    /\ hbClock = 0 /\ hbDeadline = 0 /\ hbPc = "none" /\ hbKind = "none"
    /\ hbFrames = 0 /\ hbLastAny = 0 /\ hbLastData = 0

\* A request to SubmitResponse: whether the id parameter is a valid ObjectID,
\* whether the body parses and passes validate.Struct, whether FindOne finds
\* the form published, and the responses map of the body.
Request(idOk, bodyOk, published, ans) ==
    [idOk |-> idOk, bodyOk |-> bodyOk, published |-> published, ans |-> ans]
NoRequest == Request(TRUE, TRUE, TRUE, <<>>)

\* No request is being handled.
SubIdle == spc = "idle" /\ sreq = NoRequest /\ upc = {} /\ nsub = 0

InitWith(l) ==
    /\ HubInit(l)
    /\ ClientInit
    /\ AggIdle
    /\ HbIdle
    /\ SubIdle

\* ------------------------------------------------------- shared helpers
\* A buffered channel accepts a non-blocking send while it holds fewer than cap items.
HasRoom(c) == Len(Send[c]) < lim.cap

\* Faulty variant, for the sensitivity of the properties: the message is dropped although the channel has room.
TrySendDrops(c, m) == Send

\* select { case client.Send <- m: ... default: ... } on an open channel.
TrySend(c, m) == IF HasRoom(c) THEN [Send EXCEPT ![c] = Append(@, m)] ELSE Send

\* Faulty variant, for the sensitivity of the properties: the test on FormID is left out.
TopicMatchesAlways(clientFormID, formID) == TRUE

\* Faulty variant, for the sensitivity of the properties: only the clients subscribed to the form match.
TopicMatchesExact(clientFormID, formID) == clientFormID = formID

\* if client.FormID == "" || client.FormID == formID
TopicMatches(clientFormID, formID) ==
    clientFormID = NoTopic \/ clientFormID = formID

\* if _, ok := h.Clients[client]; ok
\* Faulty variant, for the sensitivity of the properties: the lookup always finds the client.
IsRegisteredAlways(c) == TRUE

\* Faulty variant, for the sensitivity of the properties: the lookup never finds the client.
IsRegisteredNever(c) == FALSE

\* _, ok := h.Clients[client]
IsRegistered(c) == c \in Clients

\* Keys a range over h.Clients may still produce: those in the map and not yet
\* produced; a key deleted by another goroutine during the loop may be produced
\* or skipped (the iteration races with the delete).
RangeCandidates(snap, seen) == (snap \cup Clients) \ seen

\* The range loop ends once every key that is still in the map was produced;
\* a key inserted during the loop may be produced or skipped.
RangeDone(snap, seen) == (snap \cap Clients) \subseteq seen

\* A runtime panic or fatal error ends the process: nothing else changes.
Panic ==
    /\ panicked' = TRUE
    /\ UNCHANGED <<Clients, connVars, hubVars, procVars, gwait, nextId,
                   nframes, histVars, nwerrs, ncloses, lim, appVars, nskipped>>

\* ------------------------------------------------------ HandleWebSocket
\* client := &Client{...}; the handler then blocks on client.Hub.Register <- client.
\* Clients are numbered in the order in which they are made.
Accept(c) ==
    /\ ~panicked
    /\ rpc[c] = "none"
    /\ c <= lim.conns
    /\ \A d \in Conns : d < c => rpc[d] # "none"
    /\ rpc' = [rpc EXCEPT ![c] = "register"]
    /\ UNCHANGED <<Clients, FormID, Send, sendClosed, connClosed, wire,
                   pendTopic, wpc, hubVars, procVars, gwait, nextId, nframes,
                   histVars, panicked, nwerrs, ncloses, lim, appVars, nskipped>>

\* case client := <-h.Register: the rendezvous releases the handler.
HubRecvRegister(c) ==
    /\ ~panicked
    /\ hubPc = "select"
    /\ rpc[c] = "register"
    /\ hubPc' = "reg"
    /\ hubArg' = c
    /\ rpc' = [rpc EXCEPT ![c] = "greeting"]
    /\ UNCHANGED <<Clients, FormID, Send, sendClosed, connClosed, wire,
                   pendTopic, wpc, hubMsg, hubSnap, hubSeen, hubCur, procVars,
                   gwait, nextId, nframes, histVars, panicked, nwerrs, ncloses, lim, appVars, nskipped>>

\* h.Clients[client] = true
HubRegister ==
    /\ ~panicked
    /\ hubPc = "reg"
    /\ Clients' = Clients \cup {hubArg}
    /\ regDone' = [regDone EXCEPT ![hubArg] = TRUE]
    /\ hubPc' = "select"
    /\ hubArg' = NoConn
    /\ UNCHANGED <<connVars, hubMsg, hubSnap, hubSeen, hubCur, procVars,
                   gwait, nextId, nframes, unregDone, panicked, nwerrs, ncloses, lim, appVars, nskipped, prevTopic>>

\* Optional greeting: select { case client.Send <- b: default: log }, then
\* go client.writePump(); client.readPump().
Greeting(c) ==
    /\ ~panicked
    /\ rpc[c] = "greeting"
    /\ IF sendClosed[c]
       THEN Panic
       ELSE /\ Send' = TrySend(c, GreetingMsg)
            /\ wpc' = [wpc EXCEPT ![c] = "run"]
            /\ rpc' = [rpc EXCEPT ![c] = "read"]
            /\ UNCHANGED <<Clients, FormID, sendClosed, connClosed, wire,
                           pendTopic, hubVars, procVars, gwait, nextId, nframes,
                           histVars, panicked, nwerrs, ncloses, lim, appVars, nskipped>>

\* ------------------------------------------------------------- readPump
\* ReadMessage returns an error: the peer closed, the read deadline expired or
\* the transport was closed by writePump.  The deferred function then blocks
\* on c.Hub.Unregister <- c.
ReadError(c) ==
    /\ ~panicked
    /\ rpc[c] = "read"
    /\ connClosed[c] \/ ncloses < lim.closes
    /\ ncloses' = IF connClosed[c] THEN ncloses ELSE ncloses + 1
    /\ rpc' = [rpc EXCEPT ![c] = "unregister"]
    /\ UNCHANGED <<Clients, FormID, Send, sendClosed, connClosed, wire,
                   pendTopic, wpc, hubVars, procVars, gwait, nextId, nframes,
                   histVars, panicked, nwerrs, lim, appVars, nskipped>>

\* An inbound frame as readPump sees it: the message type of the frame, whether
\* json.Unmarshal accepts the payload, msg.Type, whether msg.Data is a string,
\* and the string (formIDStr is "" when the type assertion fails).
Frame(text, json, type, isString, str) ==
    [text |-> text, json |-> json, type |-> type, isString |-> isString,
     str |-> str]
SubscribeFrame(t) == Frame(TRUE, TRUE, "subscribe_form", TRUE, t)
PingFrame == Frame(TRUE, TRUE, "ping", FALSE, NoTopic)

\* Frames that are no well-formed command: a non-text frame, malformed JSON, an
\* unknown type, subscribe_form whose data is not a string.
IgnoredKinds == {"nontext", "badjson", "unknown", "subscribe_nonstring"}
FrameOf(kind) ==
    CASE kind = "nontext" -> Frame(FALSE, TRUE, "ping", FALSE, NoTopic)
      [] kind = "badjson" -> Frame(TRUE, FALSE, "subscribe_form", TRUE, "A")
      [] kind = "unknown" -> Frame(TRUE, TRUE, "unsubscribe", TRUE, "A")
      [] kind = "subscribe_nonstring" ->
             Frame(TRUE, TRUE, "subscribe_form", FALSE, NoTopic)

\* Faulty variant, for the sensitivity of the properties: the result of the
\* type assertion on msg.Data is not looked at.
DispatchUnchecked(frame) ==
    IF ~frame.text \/ ~frame.json THEN "skip"
    ELSE IF frame.type = "subscribe_form" THEN "subscribe"
    ELSE IF frame.type = "ping" THEN "ping"
    ELSE "skip"

\* The branch readPump takes for a frame: the two continue statements, then
\* the switch on msg.Type.
Dispatch(frame) ==
    IF ~frame.text THEN "skip"
    ELSE IF ~frame.json THEN "skip"
    ELSE IF frame.type = "subscribe_form"
         THEN (IF frame.isString THEN "subscribe" ELSE "skip")
    ELSE IF frame.type = "ping" THEN "ping"
    ELSE "skip"

\* A text frame {"type":"subscribe_form","data":t} with t a string:
\* msg.Data.(string) succeeds and the store c.FormID = formIDStr begins.
ReadSubscribe(c, t) ==
    /\ ~panicked
    /\ Dispatch(SubscribeFrame(t)) = "subscribe"
    /\ rpc[c] = "read"
    /\ ~connClosed[c]
    /\ nframes < lim.frames
    /\ nframes' = nframes + 1
    /\ pendTopic' = [pendTopic EXCEPT ![c] = t]
    /\ rpc' = [rpc EXCEPT ![c] = "store"]
    /\ UNCHANGED <<Clients, FormID, Send, sendClosed, connClosed, wire, wpc,
                   hubVars, procVars, gwait, nextId, histVars, panicked, nwerrs, ncloses, lim, appVars, nskipped>>

\* Faulty variant, for the sensitivity of the properties: the first subscription is kept.
StoredFormIDKeepsFirst(old, formIDStr) == IF old = NoTopic THEN formIDStr ELSE old

\* The value of c.FormID after c.FormID = formIDStr.
StoredFormID(old, formIDStr) == formIDStr

\* c.FormID = formIDStr becomes visible.
StoreTopic(c) ==
    /\ ~panicked
    /\ rpc[c] = "store"
    /\ FormID' = [FormID EXCEPT ![c] = StoredFormID(@, pendTopic[c])]
    /\ prevTopic' = [prevTopic EXCEPT ![c] = FormID[c]]
    /\ pendTopic' = [pendTopic EXCEPT ![c] = NoTopic]
    /\ rpc' = [rpc EXCEPT ![c] = "read"]
    /\ UNCHANGED <<Clients, Send, sendClosed, connClosed, wire, wpc, hubVars,
                   procVars, gwait, nextId, nframes, nwerrs, ncloses, regDone,
                   unregDone, panicked, lim, appVars, nskipped>>

\* A text frame {"type":"ping"}: select { case c.Send <- pong: default: log }.
ReadPing(c) ==
    /\ ~panicked
    /\ Dispatch(PingFrame) = "ping"
    /\ rpc[c] = "read"
    /\ ~connClosed[c]
    /\ nframes < lim.frames
    /\ IF sendClosed[c]
       THEN Panic
       ELSE /\ Send' = TrySend(c, PongMsg)
            /\ nframes' = nframes + 1
            /\ UNCHANGED <<Clients, FormID, sendClosed, connClosed, wire, rpc,
                           pendTopic, wpc, hubVars, procVars, gwait, nextId,
                           histVars, panicked, nwerrs, ncloses, lim, appVars, nskipped>>

\* readPump reads a frame that is no well-formed command and dispatches on it.
ReadIgnored(c, kind) ==
    /\ ~panicked
    /\ rpc[c] = "read"
    /\ ~connClosed[c]
    /\ kind \in IgnoredKinds
    /\ nframes < lim.frames
    /\ nframes' = nframes + 1
    /\ nskipped' = nskipped + 1
    /\ CASE Dispatch(FrameOf(kind)) = "skip" ->
                UNCHANGED <<Send, rpc, pendTopic>>
         [] Dispatch(FrameOf(kind)) = "subscribe" ->
                /\ pendTopic' = [pendTopic EXCEPT ![c] = FrameOf(kind).str]
                /\ rpc' = [rpc EXCEPT ![c] = "store"]
                /\ UNCHANGED Send
         [] Dispatch(FrameOf(kind)) = "ping" ->
                /\ ~sendClosed[c]
                /\ Send' = TrySend(c, PongMsg)
                /\ UNCHANGED <<rpc, pendTopic>>
    /\ UNCHANGED <<Clients, FormID, sendClosed, connClosed, wire, wpc, hubVars,
                   procVars, gwait, nextId, histVars, panicked, nwerrs,
                   ncloses, lim, appVars>>

\* case client := <-h.Unregister: the rendezvous releases the deferred function.
HubRecvUnregister(c) ==
    /\ ~panicked
    /\ hubPc = "select"
    /\ rpc[c] = "unregister"
    /\ hubPc' = "unreg"
    /\ hubArg' = c
    /\ rpc' = [rpc EXCEPT ![c] = "closing"]
    /\ UNCHANGED <<Clients, FormID, Send, sendClosed, connClosed, wire,
                   pendTopic, wpc, hubMsg, hubSnap, hubSeen, hubCur, procVars,
                   gwait, nextId, nframes, histVars, panicked, nwerrs, ncloses, lim, appVars, nskipped>>

\* _ = c.Conn.Close() at the end of readPump's deferred function.
ReadClose(c) ==
    /\ ~panicked
    /\ rpc[c] = "closing"
    /\ connClosed' = [connClosed EXCEPT ![c] = TRUE]
    /\ rpc' = [rpc EXCEPT ![c] = "done"]
    /\ UNCHANGED <<Clients, FormID, Send, sendClosed, wire, pendTopic, wpc,
                   hubVars, procVars, gwait, nextId, nframes, histVars,
                   panicked, nwerrs, ncloses, lim, appVars, nskipped>>

\* ------------------------------------------------------------ writePump
\* case message, ok := <-c.Send with ok: WriteMessage(TextMessage, message) succeeds.
WriteMsg(c) ==
    /\ ~panicked
    /\ wpc[c] = "run"
    /\ Send[c] # <<>>
    /\ ~connClosed[c]
    /\ wire' = [wire EXCEPT ![c] = Append(@, Head(Send[c]))]
    /\ Send' = [Send EXCEPT ![c] = Tail(@)]
    /\ UNCHANGED <<Clients, FormID, sendClosed, connClosed, rpc, pendTopic, wpc,
                   hubVars, procVars, gwait, nextId, nframes, histVars,
                   panicked, nwerrs, ncloses, lim, appVars, nskipped>>

\* case message, ok := <-c.Send with ok: WriteMessage fails (write deadline,
\* peer gone, transport closed); writePump returns and its deferred function
\* closes the transport.
WriteFail(c) ==
    /\ ~panicked
    /\ wpc[c] = "run"
    /\ Send[c] # <<>>
    /\ connClosed[c] \/ nwerrs < lim.werrs
    /\ nwerrs' = IF connClosed[c] THEN nwerrs ELSE nwerrs + 1
    /\ Send' = [Send EXCEPT ![c] = Tail(@)]
    /\ connClosed' = [connClosed EXCEPT ![c] = TRUE]
    /\ wpc' = [wpc EXCEPT ![c] = "done"]
    /\ UNCHANGED <<Clients, FormID, sendClosed, wire, rpc, pendTopic, hubVars,
                   procVars, gwait, nextId, nframes, ncloses, histVars,
                   panicked, lim, appVars, nskipped>>

\* case message, ok := <-c.Send with !ok: the channel is closed and drained;
\* writePump writes a close frame, returns and closes the transport.
WriteClosed(c) ==
    /\ ~panicked
    /\ wpc[c] = "run"
    /\ Send[c] = <<>>
    /\ sendClosed[c]
    /\ connClosed' = [connClosed EXCEPT ![c] = TRUE]
    /\ wpc' = [wpc EXCEPT ![c] = "done"]
    /\ UNCHANGED <<Clients, FormID, Send, sendClosed, wire, rpc, pendTopic,
                   hubVars, procVars, gwait, nextId, nframes, histVars,
                   panicked, nwerrs, ncloses, lim, appVars, nskipped>>

\* case <-ticker.C: the keepalive ping fails to be written; writePump returns.
WriteTickFail(c) ==
    /\ ~panicked
    /\ wpc[c] = "run"
    /\ connClosed[c] \/ nwerrs < lim.werrs
    /\ nwerrs' = IF connClosed[c] THEN nwerrs ELSE nwerrs + 1
    /\ connClosed' = [connClosed EXCEPT ![c] = TRUE]
    /\ wpc' = [wpc EXCEPT ![c] = "done"]
    /\ UNCHANGED <<Clients, FormID, Send, sendClosed, wire, rpc, pendTopic,
                   hubVars, procVars, gwait, nextId, nframes, ncloses, histVars,
                   panicked, lim, appVars, nskipped>>

\* ---------------------------------------------------- Hub.Run, Unregister
\* if _, ok := h.Clients[client]; ok { delete(h.Clients, client) ... }
HubUnregister ==
    /\ ~panicked
    /\ hubPc = "unreg"
    /\ IF IsRegistered(hubArg)
       THEN /\ Clients' = Clients \ {hubArg}
            /\ hubPc' = "unregClose"
            /\ UNCHANGED <<hubArg, unregDone, nwerrs, ncloses, lim, appVars, nskipped, prevTopic>>
       ELSE /\ hubPc' = "select"
            /\ hubArg' = NoConn
            /\ unregDone' = [unregDone EXCEPT ![hubArg] = "absent"]
            /\ UNCHANGED Clients
    /\ UNCHANGED <<connVars, hubMsg, hubSnap, hubSeen, hubCur, procVars, gwait,
                   nextId, nframes, regDone, panicked, nwerrs, ncloses, lim, appVars, nskipped, prevTopic>>

\* close(client.Send) of the Unregister branch; closing a closed channel panics.
HubUnregClose ==
    /\ ~panicked
    /\ hubPc = "unregClose"
    /\ IF sendClosed[hubArg]
       THEN Panic
       ELSE /\ sendClosed' = [sendClosed EXCEPT ![hubArg] = TRUE]
            /\ hubPc' = "select"
            /\ hubArg' = NoConn
            /\ unregDone' = [unregDone EXCEPT ![hubArg] = "removed"]
            /\ UNCHANGED <<Clients, FormID, Send, connClosed, wire, rpc,
                           pendTopic, wpc, hubMsg, hubSnap, hubSeen, hubCur,
                           procVars, gwait, nextId, nframes, nwerrs, ncloses, regDone,
                           panicked, lim, appVars, nskipped, prevTopic>>

\* ------------------------------------------------------ BroadcastGeneral
\* The caller marshals the message and blocks on h.Broadcast <- jsonData.
GeneralCall ==
    /\ ~panicked
    /\ nextId < lim.events
    /\ nextId' = nextId + 1
    /\ gwait' = Append(gwait, EventMsg(NoTopic, nextId + 1))
    /\ UNCHANGED <<Clients, connVars, hubVars, procVars, nframes, histVars,
                   panicked, nwerrs, ncloses, lim, appVars, nskipped>>

\* ----------------------------------------------------- Hub.Run, Broadcast
\* case message := <-h.Broadcast: the range over h.Clients starts.
HubRecvBroadcast ==
    /\ ~panicked
    /\ hubPc = "select"
    /\ gwait # <<>>
    /\ hubMsg' = Head(gwait)
    /\ gwait' = Tail(gwait)
    /\ hubSnap' = Clients
    /\ hubSeen' = {}
    /\ hubPc' = "range"
    /\ UNCHANGED <<Clients, connVars, hubArg, hubCur, procVars, nextId, nframes,
                   histVars, panicked, nwerrs, ncloses, lim, appVars, nskipped>>

\* for client := range h.Clients produces the next key.
HubRangeNext(c) ==
    /\ ~panicked
    /\ hubPc = "range"
    /\ c \in RangeCandidates(hubSnap, hubSeen)
    /\ hubCur' = c
    /\ hubSeen' = hubSeen \cup {c}
    /\ hubPc' = "body"
    /\ UNCHANGED <<Clients, connVars, hubArg, hubMsg, hubSnap, procVars, gwait,
                   nextId, nframes, histVars, panicked, nwerrs, ncloses, lim, appVars, nskipped>>

\* select { case client.Send <- message: default: ... }; a send on a closed
\* channel panics.
HubBody ==
    /\ ~panicked
    /\ hubPc = "body"
    /\ IF sendClosed[hubCur]
       THEN Panic
       ELSE /\ Send' = TrySend(hubCur, hubMsg)
            /\ hubPc' = IF HasRoom(hubCur) THEN "range" ELSE "close"
            /\ UNCHANGED <<Clients, FormID, sendClosed, connClosed, wire, rpc,
                           pendTopic, wpc, hubArg, hubMsg, hubSnap, hubSeen,
                           hubCur, procVars, gwait, nextId, nframes, histVars,
                           panicked, nwerrs, ncloses, lim, appVars, nskipped>>

\* default: close(client.Send)
HubClose ==
    /\ ~panicked
    /\ hubPc = "close"
    /\ IF sendClosed[hubCur]
       THEN Panic
       ELSE /\ sendClosed' = [sendClosed EXCEPT ![hubCur] = TRUE]
            /\ hubPc' = "delete"
            /\ UNCHANGED <<Clients, FormID, Send, connClosed, wire, rpc,
                           pendTopic, wpc, hubArg, hubMsg, hubSnap, hubSeen,
                           hubCur, procVars, gwait, nextId, nframes, histVars,
                           panicked, nwerrs, ncloses, lim, appVars, nskipped>>

\* default: delete(h.Clients, client)
HubDelete ==
    /\ ~panicked
    /\ hubPc = "delete"
    /\ Clients' = Clients \ {hubCur}
    /\ hubPc' = "range"
    /\ UNCHANGED <<connVars, hubArg, hubMsg, hubSnap, hubSeen, hubCur, procVars,
                   gwait, nextId, nframes, histVars, panicked, nwerrs, ncloses, lim, appVars, nskipped>>

\* The range loop is exhausted; Run goes back to its select.
HubRangeEnd ==
    /\ ~panicked
    /\ hubPc = "range"
    /\ RangeDone(hubSnap, hubSeen)
    /\ hubPc' = "select"
    /\ hubMsg' = NoMsg
    /\ hubSnap' = {}
    /\ hubSeen' = {}
    /\ hubCur' = NoConn
    /\ UNCHANGED <<Clients, connVars, hubArg, procVars, gwait, nextId, nframes,
                   histVars, panicked, nwerrs, ncloses, lim, appVars, nskipped>>

\* ------------------------------------------------------- BroadcastToForm
\* Called on the goroutine of an HTTP handler (SubmitResponse) or of
\* updateAnalytics: the message is marshalled and the range over h.Clients
\* starts, on the caller's goroutine.
BtfCall(p, formID) ==
    /\ ~panicked
    /\ bpc[p] = "idle"
    /\ p <= lim.procs
    /\ nextId < lim.events
    /\ nextId' = nextId + 1
    /\ bmsg' = [bmsg EXCEPT ![p] = EventMsg(formID, nextId + 1)]
    /\ bsnap' = [bsnap EXCEPT ![p] = Clients]
    /\ bseen' = [bseen EXCEPT ![p] = {}]
    /\ bpc' = [bpc EXCEPT ![p] = "range"]
    /\ UNCHANGED <<Clients, connVars, hubVars, bcur, gwait, nframes, histVars,
                   panicked, nwerrs, ncloses, lim, appVars, nskipped>>

\* for client := range h.Clients produces the next key.
BtfRangeNext(p, c) ==
    /\ ~panicked
    /\ bpc[p] = "range"
    /\ c \in RangeCandidates(bsnap[p], bseen[p])
    /\ bcur' = [bcur EXCEPT ![p] = c]
    /\ bseen' = [bseen EXCEPT ![p] = @ \cup {c}]
    /\ bpc' = [bpc EXCEPT ![p] = "body"]
    /\ UNCHANGED <<Clients, connVars, hubVars, bmsg, bsnap, gwait, nextId,
                   nframes, histVars, panicked, nwerrs, ncloses, lim, appVars, nskipped>>

\* The values a read of client.FormID can return: the stored one, or, while
\* readPump is storing a new string, either of the two.
FormIDReads(c) ==
    IF rpc[c] = "store" THEN {FormID[c], pendTopic[c]} ELSE {FormID[c]}

\* The loop body: the test on client.FormID, then the non-blocking send; a send
\* on a closed channel panics.
BtfBody(p) ==
    /\ ~panicked
    /\ bpc[p] = "body"
    /\ \E f \in FormIDReads(bcur[p]) :
         IF ~TopicMatches(f, bmsg[p].form_id)
         THEN /\ bpc' = [bpc EXCEPT ![p] = "range"]
              /\ UNCHANGED <<Clients, connVars, hubVars, bmsg, bsnap, bseen,
                             bcur, gwait, nextId, nframes, nwerrs, ncloses, regDone, unregDone,
                             panicked, lim, appVars, nskipped, prevTopic>>
         ELSE IF sendClosed[bcur[p]]
         THEN Panic
         ELSE /\ Send' = TrySend(bcur[p], bmsg[p])
              /\ bpc' = [bpc EXCEPT ![p] =
                            IF HasRoom(bcur[p]) THEN "range" ELSE "close"]
              /\ UNCHANGED <<Clients, FormID, sendClosed, connClosed, wire, rpc,
                             pendTopic, wpc, hubVars, bmsg, bsnap, bseen, bcur,
                             gwait, nextId, nframes, nwerrs, ncloses, regDone, unregDone,
                             panicked, lim, appVars, nskipped, prevTopic>>

\* The test on client.FormID while readPump stores a string of another
\* length into it: the read can pair the pointer of one string with the length
\* of the other, and comparing such a value faults.
BtfTornRead(p) ==
    /\ ~panicked
    /\ bpc[p] = "body"
    /\ rpc[bcur[p]] = "store"
    /\ (FormID[bcur[p]] = NoTopic) # (pendTopic[bcur[p]] = NoTopic)
    /\ Panic

\* default: close(client.Send); closing a closed channel panics.
BtfClose(p) ==
    /\ ~panicked
    /\ bpc[p] = "close"
    /\ IF sendClosed[bcur[p]]
       THEN Panic
       ELSE /\ sendClosed' = [sendClosed EXCEPT ![bcur[p]] = TRUE]
            /\ bpc' = [bpc EXCEPT ![p] = "delete"]
            /\ UNCHANGED <<Clients, FormID, Send, connClosed, wire, rpc,
                           pendTopic, wpc, hubVars, bmsg, bsnap, bseen, bcur,
                           gwait, nextId, nframes, histVars, panicked, nwerrs, ncloses, lim, appVars, nskipped>>

\* Faulty variant, for the sensitivity of the properties: the loop is left after an eviction.
BtfDeleteAndReturn(p) ==
    /\ ~panicked
    /\ bpc[p] = "delete"
    /\ Clients' = Clients \ {bcur[p]}
    /\ bpc' = [bpc EXCEPT ![p] = "idle"]
    /\ bmsg' = [bmsg EXCEPT ![p] = NoMsg]
    /\ bsnap' = [bsnap EXCEPT ![p] = {}]
    /\ bseen' = [bseen EXCEPT ![p] = {}]
    /\ bcur' = [bcur EXCEPT ![p] = NoConn]
    /\ UNCHANGED <<connVars, hubVars, gwait, nextId, nframes, nwerrs, ncloses,
                   histVars, panicked, lim, appVars, nskipped>>

\* default: delete(h.Clients, client)
BtfDelete(p) ==
    /\ ~panicked
    /\ bpc[p] = "delete"
    /\ Clients' = Clients \ {bcur[p]}
    /\ bpc' = [bpc EXCEPT ![p] = "range"]
    /\ UNCHANGED <<connVars, hubVars, bmsg, bsnap, bseen, bcur, gwait, nextId,
                   nframes, histVars, panicked, nwerrs, ncloses, lim, appVars, nskipped>>

\* The range loop is exhausted; BroadcastToForm returns.
BtfReturn(p) ==
    /\ ~panicked
    /\ bpc[p] = "range"
    /\ RangeDone(bsnap[p], bseen[p])
    /\ bpc' = [bpc EXCEPT ![p] = "idle"]
    /\ bmsg' = [bmsg EXCEPT ![p] = NoMsg]
    /\ bsnap' = [bsnap EXCEPT ![p] = {}]
    /\ bseen' = [bseen EXCEPT ![p] = {}]
    /\ bcur' = [bcur EXCEPT ![p] = NoConn]
    /\ UNCHANGED <<Clients, connVars, hubVars, gwait, nextId, nframes, histVars,
                   panicked, nwerrs, ncloses, lim, appVars, nskipped>>

\* ------------------------------------------- unsynchronized map accesses
\* Goroutines whose next statement writes h.Clients, and those whose next
\* statement reads it; HubId is Run, the others are BroadcastToForm callers.
HubId == 0
MapWriters ==
    (IF hubPc \in {"reg", "unreg", "delete"} THEN {HubId} ELSE {})
        \cup {p \in Procs : bpc[p] = "delete"}
MapReaders ==
    (IF hubPc \in {"unreg", "range"} THEN {HubId} ELSE {})
        \cup {p \in Procs : bpc[p] = "range"}

\* Two goroutines are at the map at once and one of them writes it.
MapRace ==
    \E w \in MapWriters : (MapWriters \cup MapReaders) \ {w} # {}

\* The runtime's check in the map code finds the concurrent access:
\* "fatal error: concurrent map writes" / "concurrent map iteration and map write".
RaceFatal ==
    /\ ~panicked
    /\ MapRace
    /\ Panic

\* Steps of the connections' handlers and read loops, but for the frames read.
ReadNext ==
    \/ \E c \in Conns : Accept(c)
    \/ \E c \in Conns : Greeting(c)
    \/ \E c \in Conns : ReadError(c)
    \/ \E c \in Conns : ReadClose(c)

\* The frames of the peers, and what a store into FormID can do to a reader.
CommandNext ==
    \/ \E c \in Conns, t \in Topics \cup {NoTopic} : ReadSubscribe(c, t)
    \/ \E c \in Conns : StoreTopic(c)
    \/ \E c \in Conns : ReadPing(c)
    \/ \E c \in Conns, k \in IgnoredKinds : ReadIgnored(c, k)
    \/ \E p \in Procs : BtfTornRead(p)

\* Steps of the write loops that do not end them on a transport failure.
WriteNext ==
    \/ \E c \in Conns : WriteMsg(c)
    \/ \E c \in Conns : WriteClosed(c)

\* Transport failures seen by the write loops.
WriteFailNext ==
    \/ \E c \in Conns : WriteFail(c)
    \/ \E c \in Conns : WriteTickFail(c)

\* Steps of Hub.Run.
HubNext ==
    \/ \E c \in Conns : HubRecvRegister(c)
    \/ HubRegister
    \/ \E c \in Conns : HubRecvUnregister(c)
    \/ HubUnregister
    \/ HubUnregClose
    \/ HubRecvBroadcast
    \/ \E c \in Conns : HubRangeNext(c)
    \/ HubBody
    \/ HubClose
    \/ HubDelete
    \/ HubRangeEnd

\* Steps of the callers of the hub in the controllers.
CallerNext ==
    \/ GeneralCall
    \/ \E p \in Procs, f \in Topics : BtfCall(p, f)
    \/ \E p \in Procs, c \in Conns : BtfRangeNext(p, c)
    \/ \E p \in Procs : BtfBody(p)
    \/ \E p \in Procs : BtfClose(p)
    \/ \E p \in Procs : BtfDelete(p)
    \/ \E p \in Procs : BtfReturn(p)

Next ==
    \/ ReadNext
    \/ CommandNext
    \/ WriteNext
    \/ WriteFailNext
    \/ HubNext
    \/ CallerNext
    \/ RaceFatal

\* The same without spontaneous transport failures.
NextQuiet ==
    \/ ReadNext
    \/ CommandNext
    \/ WriteNext
    \/ HubNext
    \/ CallerNext
    \/ RaceFatal

\* The same without frames from the peers either.
NextSilent ==
    \/ ReadNext
    \/ WriteNext
    \/ HubNext
    \/ CallerNext
    \/ RaceFatal

\* ------------------------------------------------------- specifications
\* Spec: two connections, one broadcast (topic-scoped or general), one
\* command and one peer that closes or falls silent.
MainConns == 2
MainProcs == 1
MainCap == 2
MainEvents == 1
MainFrames == 1
MainWerrs == 0
MainCloses == 1
MainLim == [conns |-> MainConns, procs |-> MainProcs, cap |-> MainCap,
            events |-> MainEvents, frames |-> MainFrames, werrs |-> MainWerrs,
            closes |-> MainCloses]

Init == InitWith(MainLim)

Spec == Init /\ [][Next]_vars

\* SpecRouting: two connections, two commands (so that the two can subscribe
\* to different topics, or one can change its topic) and one broadcast; the
\* transports fail only after the hub closed a queue.
RoutingConns == 2
RoutingProcs == 1
RoutingCap == 2
RoutingEvents == 1
RoutingFrames == 2
RoutingLim == [conns |-> RoutingConns, procs |-> RoutingProcs,
               cap |-> RoutingCap, events |-> RoutingEvents,
               frames |-> RoutingFrames, werrs |-> 0, closes |-> 0]

InitRouting == InitWith(RoutingLim)

SpecRouting == InitRouting /\ [][NextQuiet]_vars

\* SpecOrder: two connections that never subscribe and two broadcasts.
OrderConns == 2
OrderProcs == 1
OrderCap == 2
OrderEvents == 2
OrderLim == [conns |-> OrderConns, procs |-> OrderProcs, cap |-> OrderCap,
             events |-> OrderEvents, frames |-> 0, werrs |-> 0, closes |-> 0]

InitOrder == InitWith(OrderLim)

SpecOrder == InitOrder /\ [][NextSilent]_vars

\* One connection with a queue of one place and two broadcasts: a queue can be
\* filled and its connection evicted between any two steps of its handler.
BurstConns == 1
BurstProcs == 1
BurstCap == 1
BurstEvents == 2
BurstFrames == 1
BurstLim ==
    [conns |-> BurstConns, procs |-> BurstProcs, cap |-> BurstCap,
     events |-> BurstEvents, frames |-> BurstFrames, werrs |-> 0, closes |-> 0]
InitBurst == InitWith(BurstLim)
SpecBurst == InitBurst /\ [][NextQuiet]_vars

\* ------------------------------------------- WebSocketClient (frontend)
\* The client runs on the browser's event loop: every handler runs to its end
\* before the next one starts.
maxReconnectAttempts == 5

\* event.code of a close event: 1000 (normal closure), 1005 (the close frame
\* carried no status, as after socket.close() without arguments), 1006 (the
\* connection failed or was lost).
CloseCodes == {1000, 1005, 1006}

\* The effect of connect(): nothing when the current socket is OPEN, else a
\* new WebSocket, whose handlers are bound to this client, becomes the current
\* one; a socket that was current before keeps its handlers.
Connect ==
    IF socket # NoSocket /\ wsState[socket] = "open"
    THEN UNCHANGED <<wsState, socket, nsock>>
    ELSE /\ nsock < MaxSockets
         /\ nsock' = nsock + 1
         /\ wsState' = [wsState EXCEPT ![nsock + 1] = "connecting"]
         /\ socket' = nsock + 1

\* The page calls wsClient.connect().
AppConnect ==
    /\ ncalls < MaxCalls
    /\ ncalls' = ncalls + 1
    /\ Connect
    /\ UNCHANGED <<reconnectAttempts, isConnected, timers, sinceOpen,
                   serverVars>>

\* The callback of setTimeout(() => { this.connect() }, reconnectInterval).
TimerFire ==
    /\ timers > 0
    /\ timers' = timers - 1
    /\ Connect
    /\ UNCHANGED <<reconnectAttempts, isConnected, ncalls, sinceOpen,
                   serverVars>>

\* socket.onopen of socket s.
OnOpen(s) ==
    /\ wsState[s] = "connecting"
    /\ wsState' = [wsState EXCEPT ![s] = "open"]
    /\ isConnected' = TRUE
    /\ reconnectAttempts' = 0
    /\ sinceOpen' = 0
    /\ UNCHANGED <<socket, timers, nsock, ncalls, serverVars>>

\* Faulty variant, for the sensitivity of the properties: no maximum.
MaxReachedNever(n) == FALSE

\* if (this.reconnectAttempts >= this.maxReconnectAttempts)
MaxReached(n) == n >= maxReconnectAttempts

\* handleReconnect()
HandleReconnect ==
    IF MaxReached(reconnectAttempts)
    THEN UNCHANGED <<reconnectAttempts, socket, timers, sinceOpen>>
    ELSE /\ reconnectAttempts' = reconnectAttempts + 1
         /\ socket' = NoSocket
         /\ timers' = timers + 1
         /\ sinceOpen' = sinceOpen + 1

\* Faulty variant, for the sensitivity of the properties: every close
\* reconnects.
ManualCloseNever(code) == FALSE

\* if (event.code !== 1000) of socket.onclose
ManualClose(code) == code = 1000

\* socket.onclose of socket s with event.code = code; a connection that
\* fails before it opens closes with 1006.
OnClose(s, code) ==
    /\ wsState[s] \in {"connecting", "open", "closing"}
    /\ wsState[s] = "connecting" => code = 1006
    /\ wsState' = [wsState EXCEPT ![s] = "closed"]
    /\ isConnected' = FALSE
    /\ IF ManualClose(code)
       THEN UNCHANGED <<reconnectAttempts, socket, timers, sinceOpen>>
       ELSE HandleReconnect
    /\ UNCHANGED <<nsock, ncalls, serverVars>>

\* The page calls wsClient.disconnect(): socket.close() without arguments,
\* then socket = null.
AppDisconnect ==
    /\ ncalls < MaxCalls
    /\ ncalls' = ncalls + 1
    /\ IF socket # NoSocket
       THEN /\ wsState' = [wsState EXCEPT ![socket] =
                             IF @ \in {"connecting", "open"} THEN "closing"
                             ELSE @]
            /\ socket' = NoSocket
       ELSE UNCHANGED <<wsState, socket>>
    /\ isConnected' = FALSE
    /\ UNCHANGED <<reconnectAttempts, timers, nsock, sinceOpen, serverVars>>

ClientNext ==
    \/ AppConnect
    \/ TimerFire
    \/ \E s \in Sockets : OnOpen(s)
    \/ \E s \in Sockets, code \in CloseCodes : OnClose(s, code)
    \/ AppDisconnect

\* The browser's client alone; the server is left as it starts.
IdleLim ==
    [conns |-> 0, procs |-> 0, cap |-> 0, events |-> 0, frames |-> 0,
     werrs |-> 0, closes |-> 0]
InitClient == InitWith(IdleLim)
SpecClient == InitClient /\ [][ClientNext]_vars

\* ------------------------------------- analytics (ResponseController)
\* A value of the responses map of a document: the key is absent, or its
\* value is null, a string, or a number (a float64, held as twice its value so
\* that halves are exact).
Absent == [k |-> "absent", s |-> "", n |-> 0]
Null == [k |-> "null", s |-> "", n |-> 0]
Str(str) == [k |-> "str", s |-> str, n |-> 0]
Num(twice) == [k |-> "num", s |-> "", n |-> twice]

FieldIds == {"f1", "f2"}
Field(id, type, required) == [id |-> id, type |-> type, required |-> required]
Response(t, ans) == [t |-> t, ans |-> ans]

RECURSIVE SumOver(_, _)
\* The sum of f[j] over the finite set S of indices.
SumOver(f, S) ==
    IF S = {} THEN 0
    ELSE LET j == CHOOSE x \in S : TRUE IN f[j] + SumOver(f, S \ {j})

\* The local midnight k days before today's, in hours since today's.
RECURSIVE Midnight(_)
Midnight(k) == IF k = 0 THEN 0 ELSE Midnight(k - 1) - dayLen[k]

\* startOfDay := time.Date(date.Year(), date.Month(), date.Day(), 0, 0, 0, 0,
\* date.Location()) for date := now.AddDate(0, 0, -i): the local midnight of
\* the calendar day i days ago.
StartOfDay(i) == Midnight(i)

\* endOfDay := startOfDay.Add(24 * time.Hour)
TwentyFourHours == 24
EndOfDay(i) == StartOfDay(i) + TwentyFourHours

\* CountDocuments with created_at >= from and created_at < to.
CountBetween(from, to) ==
    Cardinality({j \in 1..Len(db) : from <= db[j].t /\ db[j].t < to})
\* CountDocuments with created_at >= from.
CountSince(from) == Cardinality({j \in 1..Len(db) : from <= db[j].t})

\* GetAnalytics has read the form; calculateAnalytics starts.
AggStart ==
    /\ apc = "idle"
    /\ apc' = "total"
    /\ UNCHANGED <<fields, db, dayLen, nowT, total, recent, trends, completion,
                   fidx, fcount, fieldAnalytics, ninserts, hubSideVars,
                   clientVars>>

\* total, err := CountDocuments(form_id)
AggTotal ==
    /\ apc = "total"
    /\ total' = Len(db)
    /\ apc' = "recent"
    /\ UNCHANGED <<fields, db, dayLen, nowT, recent, trends, completion, fidx,
                   fcount, fieldAnalytics, ninserts, hubSideVars, clientVars>>

\* count24h, countWeek, countMonth
AggRecent ==
    /\ apc = "recent"
    /\ recent' = <<CountSince(nowT - 24), CountSince(nowT - 7 * 24),
                   CountSince(nowT - 30 * 24)>>
    /\ trends' = <<>>
    /\ apc' = "trends"
    /\ UNCHANGED <<fields, db, dayLen, nowT, total, completion, fidx, fcount,
                   fieldAnalytics, ninserts, hubSideVars, clientVars>>

\* for i := 6; i >= 0; i-- of calculateResponseTrends, the first value of i.
FirstTrendDay == 6

\* One turn of the loop of calculateResponseTrends: one CountDocuments.
AggTrend ==
    /\ apc = "trends"
    /\ LET i == FirstTrendDay - Len(trends) IN
         /\ trends' = Append(trends,
                [date |-> i,
                 count |-> CountBetween(StartOfDay(i), EndOfDay(i))])
         /\ apc' = IF i = 0 THEN "completion" ELSE "trends"
    /\ UNCHANGED <<fields, db, dayLen, nowT, total, recent, completion, fidx,
                   fcount, fieldAnalytics, ninserts, hubSideVars, clientVars>>

\* Faulty variant, for the sensitivity of the properties: an empty string
\* counts as a value.
IsMissingNoEmpty(v) == v.k = "absent" \/ v.k = "null"

\* !exists || value == nil || value == ""
IsMissing(v) == v.k = "absent" \/ v.k = "null" \/ v = Str("")

\* requiredFields of calculateCompletionMetrics
RequiredFields(fs) ==
    LET req == SelectSeq(fs, LAMBDA f : f.required)
    IN [j \in 1..Len(req) |-> req[j].id]

\* isComplete of one response
IsComplete(r, fs) ==
    \A j \in 1..Len(RequiredFields(fs)) :
        ~IsMissing(r.ans[RequiredFields(fs)[j]])

\* len(response.Responses): the number of keys of the map
NumKeys(r) == Cardinality({f \in DOMAIN r.ans : r.ans[f].k # "absent"})

\* Faulty variant, for the sensitivity of the properties: no test for an empty
\* result before the divisions.
CompletionMetricsUnguarded(rs, fs) ==
    LET completed == Cardinality({j \in 1..Len(rs) : IsComplete(rs[j], fs)})
        time == SumOver([j \in 1..Len(rs) |-> NumKeys(rs[j]) * 10], 1..Len(rs))
    IN [rate |-> Percent(completed, Len(rs)), avgTime |-> Rat(time, Len(rs))]

\* calculateCompletionMetrics on the documents rs the cursor returned.
CompletionMetrics(rs, fs) ==
    IF Len(rs) = 0
    THEN [rate |-> Zero, avgTime |-> Zero]
    ELSE LET completed == Cardinality({j \in 1..Len(rs) : IsComplete(rs[j], fs)})
             time == SumOver([j \in 1..Len(rs) |-> NumKeys(rs[j]) * 10],
                             1..Len(rs))
         IN [rate |-> Percent(completed, Len(rs)),
             avgTime |-> Rat(time, Len(rs))]

\* completionRate, avgTime, err := rc.calculateCompletionMetrics(formID, fields)
AggCompletion ==
    /\ apc = "completion"
    /\ completion' = CompletionMetrics(db, fields)
    /\ fidx' = 1
    /\ fieldAnalytics' = <<>>
    /\ apc' = IF Len(fields) = 0 THEN "done" ELSE "fieldCount"
    /\ UNCHANGED <<fields, db, dayLen, nowT, total, recent, trends, fcount,
                   ninserts, hubSideVars, clientVars>>

\* "responses." + field.ID: {"$exists": true, "$nin": [nil, ""]}
Answered(v) == v.k # "absent" /\ v.k # "null" /\ v # Str("")
AnsweredDocs(id) == {j \in 1..Len(db) : Answered(db[j].ans[id])}

\* fieldResponseCount, err := CountDocuments(...)
AggFieldCount ==
    /\ apc = "fieldCount"
    /\ fcount' = Cardinality(AnsweredDocs(fields[fidx].id))
    /\ apc' = "fieldDetail"
    /\ UNCHANGED <<fields, db, dayLen, nowT, total, recent, trends, completion,
                   fidx, fieldAnalytics, ninserts, hubSideVars, clientVars>>

\* Faulty variant, for the sensitivity of the properties: the skip rate
\* starts at 0 as the response rate does.
FieldRatesZeroSkip(tot, cnt) ==
    IF tot > 0
    THEN [response_rate |-> Percent(cnt, tot),
          skip_rate |-> HundredMinus(Percent(cnt, tot))]
    ELSE [response_rate |-> Zero, skip_rate |-> Zero]

\* responseRate := float64(0); skipRate := float64(100);
\* if totalResponses > 0 { responseRate = count / total * 100;
\*                         skipRate = 100 - responseRate }
FieldRates(tot, cnt) ==
    IF tot > 0
    THEN [response_rate |-> Percent(cnt, tot),
          skip_rate |-> HundredMinus(Percent(cnt, tot))]
    ELSE [response_rate |-> Zero, skip_rate |-> Hundred]

\* $limit of the choice pipeline and of the text pipeline
ChoiceLimit == 10
TextLimit == 5
ChoiceTypes == {"multiple_choice", "checkbox"}
TextTypes == {"text", "textarea", "email"}

\* $group by value with $sum 1 over the matched documents
GroupValues(id) == {db[j].ans[id] : j \in AnsweredDocs(id)}
GroupCount(id, v) == Cardinality({j \in AnsweredDocs(id) : db[j].ans[id] = v})

\* $sort {count: -1}: every order of the groups by non-increasing count (the
\* order of groups of equal count is the server's choice).
SortedGroups(id) ==
    LET n == Cardinality(GroupValues(id)) IN
    {s \in [1..n -> GroupValues(id)] :
        /\ \A a, b \in 1..n : a # b => s[a] # s[b]
        /\ \A a, b \in 1..n : a < b => GroupCount(id, s[a]) >= GroupCount(id, s[b])}

\* $limit
Limit(s, n) == [j \in 1..(IF Len(s) < n THEN Len(s) ELSE n) |-> s[j]]

\* valueStr of the text branch: the string, or "" for a value of another type
\* (the strings of the model are shorter than the 50 characters from which the
\* code truncates).
TextValue(v) == IF v.k = "str" THEN v ELSE Str("")

\* commonResponses of the choice and text branches, from the groups gs the
\* pipeline returned and the fieldResponseCount read before.
GroupEntries(id, type, gs, cnt) ==
    [j \in 1..Len(gs) |->
        [value |-> IF type \in TextTypes THEN TextValue(gs[j]) ELSE gs[j],
         count |-> GroupCount(id, gs[j]),
         percentage |-> Percent(GroupCount(id, gs[j]), cnt)]]

\* Faulty variant, for the sensitivity of the properties: a rating is put in
\* the bucket of the nearest integer above.
RatingBucketCeil(v) == (v.n + 1) \div 2

\* int(r) of a float64 rating: its integer part.
RatingBucket(v) == v.n \div 2

\* The ratings the $push collected that are numbers.
NumericDocs(id) == {j \in AnsweredDocs(id) : db[j].ans[id].k = "num"}

\* distribution[rating] of the rating branch
Distribution(id, rating) ==
    Cardinality({j \in NumericDocs(id) : RatingBucket(db[j].ans[id]) = rating})

\* for rating := 1; rating <= 5; rating++ { if count > 0 { append } }
RatingEntries(id) ==
    LET all == [r \in 1..5 |->
                  [value |-> Num(2 * r),
                   count |-> Distribution(id, r),
                   percentage |-> Percent(Distribution(id, r),
                                          Cardinality(AnsweredDocs(id)))]]
    IN SelectSeq(all, LAMBDA e : e.count > 0)

\* $avg over the matched documents: the mean of the numeric values, null when
\* there is none.
NoAverage == [has |-> FALSE, value |-> Zero]
Average(id) ==
    IF NumericDocs(id) = {} THEN NoAverage
    ELSE [has |-> TRUE,
          value |-> Rat(SumOver([j \in 1..Len(db) |-> db[j].ans[id].n],
                                NumericDocs(id)),
                        2 * Cardinality(NumericDocs(id)))]

\* result of calculateEnhancedFieldAnalytics
FieldResult(f, rates, unique, common, avg) ==
    [field_id |-> f.id, field_type |-> f.type,
     response_rate |-> rates.response_rate, skip_rate |-> rates.skip_rate,
     unique_responses |-> unique, common_responses |-> common,
     average_rating |-> avg]

\* The switch on field.Type with its aggregation, the result, and the next
\* turn of the loop over the fields.
AggFieldDetail ==
    /\ apc = "fieldDetail"
    /\ LET f == fields[fidx]
           rates == FieldRates(total, fcount)
       IN \E r \in
            IF f.type \in ChoiceTypes \cup TextTypes
            THEN {LET gs == Limit(sg, IF f.type \in ChoiceTypes
                                        THEN ChoiceLimit ELSE TextLimit)
                  IN FieldResult(f, rates, Len(gs),
                                 GroupEntries(f.id, f.type, gs, fcount), NoAverage)
                  : sg \in SortedGroups(f.id)}
            ELSE IF f.type = "rating" /\ AnsweredDocs(f.id) # {}
            THEN {FieldResult(f, rates, 0, RatingEntries(f.id), Average(f.id))}
            ELSE {FieldResult(f, rates, 0, <<>>, NoAverage)} :
          fieldAnalytics' = Append(fieldAnalytics, r)
    /\ fidx' = fidx + 1
    /\ apc' = IF fidx = Len(fields) THEN "done" ELSE "fieldCount"
    /\ UNCHANGED <<fields, db, dayLen, nowT, total, recent, trends, completion,
                   fcount, ninserts, hubSideVars, clientVars>>

\* validateResponse: a required field is present, non-null and not ""; a
\* rating that is a number lies in 1..5.
Validate(ans, fs) ==
    \A j \in 1..Len(fs) :
        /\ fs[j].required => ~IsMissing(ans[fs[j].id])
        /\ (fs[j].type = "rating" /\ ans[fs[j].id].k = "num")
              => (2 <= ans[fs[j].id].n /\ ans[fs[j].id].n <= 10)

MaxInserts == 1
InsertValues == {Absent, Str("a")}

\* SubmitResponse of another request stores a document while the summary is
\* being computed.
InsertResponse ==
    /\ apc \notin {"idle", "done"}
    /\ ninserts < MaxInserts
    /\ \E ans \in [FieldIds -> InsertValues] :
          /\ Validate(ans, fields)
          /\ db' = Append(db, Response(nowT, ans))
    /\ ninserts' = ninserts + 1
    /\ UNCHANGED <<fields, dayLen, nowT, apc, total, recent, trends, completion,
                   fidx, fcount, fieldAnalytics, hubSideVars, clientVars>>

AggSteps ==
    \/ AggStart
    \/ AggTotal
    \/ AggRecent
    \/ AggTrend
    \/ AggCompletion
    \/ AggFieldCount
    \/ AggFieldDetail

AggNext ==
    \/ AggSteps
    \/ InsertResponse

\* The variables of the computation before GetAnalytics starts it.
AggFresh ==
    /\ apc = "idle" /\ total = 0 /\ recent = <<0, 0, 0>> /\ trends = <<>>
    /\ completion = [rate |-> Zero, avgTime |-> Zero]
    /\ fidx = 0 /\ fcount = 0 /\ fieldAnalytics = <<>> /\ ninserts = 0

\* The sequences over S of length at most n.
SeqUpTo(S, n) == UNION {[1..m -> S] : m \in 0..n}

\* Summary of a form of two fields over at most MaxStored stored responses,
\* with submissions arriving during the computation. The stored responses need
\* not satisfy the form: UpdateForm replaces the fields of a form that already
\* has responses.
MaxStored == 2
StoredValues == {Absent, Null, Str(""), Str("a")}
Noon == 12
InitSummary ==
    /\ HubInit(IdleLim) /\ ClientInit /\ AggFresh /\ HbIdle /\ SubIdle
    /\ dayLen = [k \in Days |-> 24]
    /\ nowT = Noon
    /\ fields \in {<<Field("f1", t, r1), Field("f2", "multiple_choice", r2)>> :
                      t \in {"text", "rating"}, r1 \in BOOLEAN, r2 \in BOOLEAN}
    /\ db \in {[j \in DOMAIN q |-> Response(0, q[j])] :
                  q \in SeqUpTo([FieldIds -> StoredValues], MaxStored)}
SpecSummary == InitSummary /\ [][AggNext]_vars

\* Trends over days of which at most one has a clock change (23 or 25 hours
\* between its local midnights), with the stored responses created at the
\* midnights, just before them, and a nominal day after them.
MaxStamped == 2
DayLengths == {23, 24, 25}
Offsets == {0, 23, 24}
Instants == {x \in {Midnight(k) + d : k \in Days, d \in Offsets} : x <= nowT}
InitTrends ==
    /\ HubInit(IdleLim) /\ ClientInit /\ AggFresh /\ HbIdle /\ SubIdle
    /\ dayLen \in {d \in [Days -> DayLengths] :
                      Cardinality({k \in Days : d[k] # 24}) <= 1}
    /\ nowT \in {0, dayLen[0] - 1}
    /\ fields = <<Field("f1", "text", TRUE)>>
    /\ db \in {[j \in DOMAIN q |->
                   Response(q[j], [f \in FieldIds |->
                                      IF f = "f1" THEN Str("a") ELSE Absent])] :
                  q \in {r \in SeqUpTo(Instants, MaxStamped) :
                            \A a, b \in DOMAIN r : a < b => r[a] <= r[b]}}
SpecTrends == InitTrends /\ [][AggSteps]_vars

\* Summary of a form of one rating field over at most MaxRatings stored
\* responses that passed validateResponse for it.
MaxRatings == 4
RatingValues == {Absent, Str("a"), Num(2), Num(6), Num(9), Num(10)}
InitRatings ==
    /\ HubInit(IdleLim) /\ ClientInit /\ AggFresh /\ HbIdle /\ SubIdle
    /\ dayLen = [k \in Days |-> 24]
    /\ nowT = Noon
    /\ fields \in {<<Field("f1", "rating", r)>> : r \in BOOLEAN}
    /\ db \in {[j \in DOMAIN q |->
                   Response(0, [f \in FieldIds |->
                                   IF f = "f1" THEN q[j] ELSE Absent])] :
                  q \in SeqUpTo(RatingValues, MaxRatings)}
    /\ \A j \in DOMAIN db : Validate(db[j].ans, fields)
SpecRatings == InitRatings /\ [][AggSteps]_vars

\* ------------------------------------------ read deadline (readPump)
\* c.Conn.SetReadDeadline(time.Now().Add(70 * time.Second))
ReadWait == 70

\* The clock is followed in steps of TickLen seconds up to MaxClock, over at
\* most MaxHbFrames frames of the peer.
TickLen == 10
MaxClock == 160
MaxHbFrames == 3

\* What the peer can send: data frames (text, binary), which ReadMessage
\* returns, and control frames (pong, ping), which the library handles inside
\* ReadMessage.
FrameKinds == {"text", "binary", "pong", "ping"}

\* Faulty variant, for the sensitivity of the properties: no pong handler is
\* installed.
ExtendsDeadlineDataOnly(kind) == kind \in {"text", "binary"}

\* The frames on which the code sets the read deadline again: after
\* ReadMessage has returned a message (whatever its type), and in the pong
\* handler. No ping handler is installed: the library's default one answers
\* the ping and leaves the deadline.
ExtendsDeadline(kind) == kind \in {"text", "binary", "pong"}

\* Time passes while ReadMessage waits; it does not wait beyond the deadline.
HbTick ==
    /\ hbPc = "read"
    /\ hbClock < hbDeadline
    /\ hbClock + TickLen <= MaxClock
    /\ hbClock' = hbClock + TickLen
    /\ UNCHANGED <<hbDeadline, hbPc, hbKind, hbFrames, hbLastAny, hbLastData,
                   Clients, connVars, hubVars, procVars, gwait, envVars,
                   histVars, panicked, lim, nskipped, clientVars, aggVars, subVars>>

\* A frame of the peer arrives before the deadline.
HbReceive(kind) ==
    /\ hbPc = "read"
    /\ hbClock < hbDeadline
    /\ hbFrames < MaxHbFrames
    /\ hbFrames' = hbFrames + 1
    /\ hbKind' = kind
    /\ hbLastAny' = hbClock
    /\ hbLastData' = IF kind = "ping" THEN hbLastData ELSE hbClock
    /\ hbDeadline' = IF ExtendsDeadline(kind) THEN hbClock + ReadWait
                     ELSE hbDeadline
    /\ UNCHANGED <<hbClock, hbPc,
                   Clients, connVars, hubVars, procVars, gwait, envVars,
                   histVars, panicked, lim, nskipped, clientVars, aggVars, subVars>>

\* The deadline has passed: ReadMessage returns a timeout error and readPump
\* returns into its deferred function (c.Hub.Unregister <- c, c.Conn.Close()).
HbTimeout ==
    /\ hbPc = "read"
    /\ hbClock >= hbDeadline
    /\ hbPc' = "unregister"
    /\ UNCHANGED <<hbClock, hbDeadline, hbKind, hbFrames, hbLastAny, hbLastData,
                   Clients, connVars, hubVars, procVars, gwait, envVars,
                   histVars, panicked, lim, nskipped, clientVars, aggVars, subVars>>

HbNext ==
    \/ HbTick
    \/ \E kind \in FrameKinds : HbReceive(kind)
    \/ HbTimeout

\* readPump has set the first deadline and is in its first ReadMessage.
InitHeartbeat ==
    /\ HubInit(IdleLim) /\ ClientInit /\ AggIdle /\ SubIdle
    /\ hbClock = 0 /\ hbDeadline = ReadWait /\ hbPc = "read" /\ hbKind = "none"
    /\ hbFrames = 0 /\ hbLastAny = 0 /\ hbLastData = 0
SpecHeartbeat == InitHeartbeat /\ [][HbNext]_vars

\* ------------------------------------------------ SubmitResponse (backend)
\* POST /forms/:id/responses.  The handler is BroadcastToForm caller Handler,
\* the updateAnalytics goroutines it starts are caller Updater.
Handler == 1
Updater == 2
MaxSubmits == 2
SubmitForm == "A"
SubmitFields == <<Field("f1", "text", TRUE), Field("f2", "rating", FALSE)>>
SubmitValues ==
    [f \in FieldIds |-> IF f = "f1" THEN {Absent, Str(""), Str("a")}
                        ELSE {Absent, Num(6), Num(12)}]
Requests ==
    {Request(i, b, pub, ans) :
        i \in BOOLEAN, b \in BOOLEAN, pub \in BOOLEAN,
        ans \in {a \in [FieldIds -> StoredValues \cup {Num(6), Num(12)}] :
                    \A f \in FieldIds : a[f] \in SubmitValues[f]}}

\* An event of the controllers; id is the position in the collection of the
\* response that caused it.
SubmitMsg(type, formID, id) == [type |-> type, form_id |-> formID, id |-> id]

\* Faulty variant, for the sensitivity of the properties: the form is looked
\* up without the is_published filter.
SubmitVerdictAnyForm(req, fs) ==
    IF ~req.idOk THEN 400
    ELSE IF ~req.bodyOk THEN 400
    ELSE IF ~Validate(req.ans, fs) THEN 400
    ELSE 201

\* The status SubmitResponse answers with when the collection accepts the
\* insert: the checks in the order of the code.
SubmitVerdict(req, fs) ==
    IF ~req.idOk THEN 400
    ELSE IF ~req.bodyOk THEN 400
    ELSE IF ~req.published THEN 404
    ELSE IF ~Validate(req.ans, fs) THEN 400
    ELSE 201

\* A request arrives at an idle handler.
SubmitArrive(req) ==
    /\ ~panicked
    /\ spc \in {"idle", "rejected", "failed", "done"}
    /\ nsub < MaxSubmits
    /\ spc' = "parse"
    /\ sreq' = req
    /\ nsub' = nsub + 1
    /\ UNCHANGED <<upc, hubSideVarsNoSub, clientVars, aggVars>>

\* The checks before the insert; every failing one returns.
SubmitCheck ==
    /\ ~panicked
    /\ spc = "parse"
    /\ spc' = IF SubmitVerdict(sreq, fields) = 201 THEN "insert" ELSE "rejected"
    /\ UNCHANGED <<sreq, upc, nsub, hubSideVarsNoSub, clientVars, aggVars>>

\* InsertOne; when it fails the handler answers 500.
SubmitInsert(ok) ==
    /\ ~panicked
    /\ spc = "insert"
    /\ IF ok
       THEN /\ db' = Append(db, Response(nowT, sreq.ans))
            /\ spc' = "broadcast"
       ELSE /\ db' = db
            /\ spc' = "failed"
    /\ UNCHANGED <<sreq, upc, nsub, hubSideVarsNoSub, clientVars, fields,
                   dayLen, nowT, apc, total, recent, trends, completion, fidx,
                   fcount, fieldAnalytics, ninserts>>

\* A controller enters BroadcastToForm as caller p.
SubmitEnter(p, m) ==
    /\ bpc[p] = "idle"
    /\ p <= lim.procs
    /\ bmsg' = [bmsg EXCEPT ![p] = m]
    /\ bsnap' = [bsnap EXCEPT ![p] = Clients]
    /\ bseen' = [bseen EXCEPT ![p] = {}]
    /\ bpc' = [bpc EXCEPT ![p] = "range"]
    /\ UNCHANGED <<Clients, connVars, hubVars, bcur, gwait, nextId, nframes,
                   histVars, panicked, nwerrs, ncloses, lim, nskipped,
                   clientVars, aggVars, hbVars>>

\* rc.hub.BroadcastToForm(id, "response_submitted", ...).
SubmitBroadcast ==
    /\ ~panicked
    /\ spc = "broadcast"
    /\ SubmitEnter(Handler, SubmitMsg("response_submitted", SubmitForm, Len(db)))
    /\ spc' = "call"
    /\ UNCHANGED <<sreq, upc, nsub>>

\* BroadcastToForm returned: go rc.updateAnalytics(objectID) and 201.
SubmitReturn ==
    /\ ~panicked
    /\ spc = "call"
    /\ bpc[Handler] = "idle"
    /\ spc' = "done"
    /\ upc' = upc \cup {Len(db)}
    /\ UNCHANGED <<sreq, nsub, hubSideVarsNoSub, clientVars, aggVars>>

\* updateAnalytics: rc.hub.BroadcastToForm(formID.Hex(), "analytics_updated", ...).
UpdateAnalytics(k) ==
    /\ ~panicked
    /\ k \in upc
    /\ SubmitEnter(Updater, SubmitMsg("analytics_updated", SubmitForm, k))
    /\ upc' = upc \ {k}
    /\ UNCHANGED <<spc, sreq, nsub>>

SubmitNext ==
    \/ \E req \in Requests : SubmitArrive(req)
    \/ SubmitCheck
    \/ \E ok \in BOOLEAN : SubmitInsert(ok)
    \/ SubmitBroadcast
    \/ SubmitReturn
    \/ \E k \in 1..MaxSubmits : UpdateAnalytics(k)
    \/ \E c \in Conns : Accept(c)
    \/ \E c \in Conns : HubRecvRegister(c)
    \/ HubRegister
    \/ \E c \in Conns : Greeting(c)
    \/ \E c \in Conns : WriteMsg(c)
    \/ \E p \in Procs, c \in Conns : BtfRangeNext(p, c)
    \/ \E p \in Procs : BtfBody(p)
    \/ \E p \in Procs : BtfClose(p)
    \/ \E p \in Procs : BtfDelete(p)
    \/ \E p \in Procs : BtfReturn(p)
    \/ RaceFatal

\* One connection with a queue of two places, and two requests.
SubmitConns == 1
SubmitCap == 2
SubmitLim ==
    [conns |-> SubmitConns, procs |-> NProcs, cap |-> SubmitCap, events |-> 0,
     frames |-> 0, werrs |-> 0, closes |-> 0]
InitSubmit ==
    /\ HubInit(SubmitLim) /\ ClientInit /\ HbIdle
    /\ fields = SubmitFields
    /\ db = <<>>
    /\ dayLen = [k \in Days |-> 24]
    /\ nowT = 0
    /\ apc = "idle"
    /\ total = 0
    /\ recent = <<0, 0, 0>>
    /\ trends = <<>>
    /\ completion = [rate |-> Zero, avgTime |-> Zero]
    /\ fidx = 0
    /\ fcount = 0
    /\ fieldAnalytics = <<>>
    /\ ninserts = 0
    /\ spc = "idle" /\ sreq = NoRequest /\ upc = {} /\ nsub = 0
SpecSubmit == InitSubmit /\ [][SubmitNext]_vars

\* ------------------------------------------------------------ properties
\* A step of the loop body of BroadcastToForm caller p that did not panic.
BodyStep(p) == bpc[p] = "body" /\ bpc'[p] # "body"

\* A step in which BroadcastToForm caller p returns.
ReturnStep(p) == bpc[p] = "range" /\ bpc'[p] = "idle"

\* No store into c.FormID is in progress.
Stable(c) == rpc[c] # "store"

\* The ids of the broadcast events a connection was handed, in order: those
\* already written to the wire, then those still queued.
Delivered(c) == wire[c] \o Send[c]

HasEvent(c, id) ==
    \E i \in 1..Len(Delivered(c)) :
        Delivered(c)[i].type = "event" /\ Delivered(c)[i].id = id

\* C1: a topic-scoped broadcast for topic f enqueues the event on every
\* connection subscribed to f whose queue is open and has room, and on no
\* connection subscribed to another topic; it returns only when every
\* connection that was registered when it started and still is was visited.
C1_TopicScoped ==
    [][\A p \in Procs :
         /\ BodyStep(p) =>
              /\ (/\ Stable(bcur[p])
                  /\ FormID[bcur[p]] = bmsg[p].form_id
                  /\ ~sendClosed[bcur[p]]
                  /\ HasRoom(bcur[p]))
                     => Send'[bcur[p]] = Append(Send[bcur[p]], bmsg[p])
              /\ (/\ Stable(bcur[p])
                  /\ FormID[bcur[p]] \in Topics \ {bmsg[p].form_id})
                     => /\ Send' = Send
                        /\ sendClosed' = sendClosed
                        /\ bpc'[p] = "range"
         /\ ReturnStep(p) => (bsnap[p] \cap Clients) \subseteq bseen[p]
      ]_vars

\* Witness of C1: the broadcast for "A" has returned; a connection subscribed
\* to "A" holds the event and a registered one subscribed to "B" does not.
C1_Witness ==
    \E c, d \in Clients :
        /\ FormID[c] = "A" /\ FormID[d] = "B"
        /\ nextId = 1 /\ \A p \in Procs : bpc[p] = "idle"
        /\ HasEvent(c, 1) /\ ~HasEvent(d, 1)
        /\ ~panicked

\* C2 as claimed: a topic-scoped broadcast is enqueued only on connections
\* whose topic equals the event's topic; a connection whose topic is unset or
\* different receives nothing from it.
C2_OnlySubscribers ==
    [][\A p \in Procs :
         (BodyStep(p) /\ Stable(bcur[p]) /\ FormID[bcur[p]] # bmsg[p].form_id)
             => Send' = Send
      ]_vars

\* C2 as amended: a step of the loop body enqueues the event on the visited
\* connection exactly when that connection's topic is the event's topic or is
\* unset (and its queue has room), and on no other connection.
C2_SubscribersAndUnset ==
    [][\A p \in Procs :
         (BodyStep(p) /\ Stable(bcur[p])) =>
             /\ (Send'[bcur[p]] # Send[bcur[p]]) <=>
                    /\ FormID[bcur[p]] \in {bmsg[p].form_id, NoTopic}
                    /\ HasRoom(bcur[p])
             /\ Send'[bcur[p]] # Send[bcur[p]]
                    => Send'[bcur[p]] = Append(Send[bcur[p]], bmsg[p])
             /\ \A d \in Conns \ {bcur[p]} : Send'[d] = Send[d]
      ]_vars

\* Witness of C2: a registered connection that never subscribed holds the
\* event of the topic-scoped broadcast.
C2_Witness ==
    \E c \in Clients :
        /\ FormID[c] = NoTopic /\ prevTopic[c] = NoTopic /\ Stable(c)
        /\ \E i \in 1..Len(Send[c]) :
               Send[c][i].type = "event" /\ Send[c][i].form_id \in Topics
        /\ ~panicked

\* A step of the loop body of Run's Broadcast branch that did not panic.
HubBodyStep == hubPc = "body" /\ hubPc' # "body"

\* C3: the hub's Broadcast branch enqueues the message, which carries no
\* topic, on every connection it visits whose queue is open and has room,
\* whatever the connection's topic; the loop ends only when every connection
\* that was registered when the message was received and still is was visited.
C3_GeneralBroadcast ==
    [][/\ HubBodyStep =>
            /\ hubMsg.form_id = NoTopic
            /\ (~sendClosed[hubCur] /\ HasRoom(hubCur))
                   => Send'[hubCur] = Append(Send[hubCur], hubMsg)
       /\ (hubPc = "range" /\ hubPc' = "select")
            => (hubSnap \cap Clients) \subseteq hubSeen
      ]_vars

\* Witness of C3: the general broadcast is over; a connection subscribed to a
\* topic and one that is not both hold its event.
C3_Witness ==
    \E c, d \in Clients :
        /\ FormID[c] \in Topics /\ FormID[d] = NoTopic
        /\ hubPc = "select" /\ gwait = <<>> /\ nextId = 1
        /\ \E i \in 1..Len(Delivered(c)) :
               Delivered(c)[i] = EventMsg(NoTopic, 1)
        /\ \E i \in 1..Len(Delivered(d)) :
               Delivered(d)[i] = EventMsg(NoTopic, 1)
        /\ ~panicked

\* A step in which caller p closes the queue of the connection it evicts, a
\* step in which it deletes that connection, and the same for Run.
CloseStep(p) == bpc[p] = "close" /\ bpc'[p] = "delete"
DeleteStep(p) == bpc[p] = "delete" /\ bpc'[p] # "delete"
HubCloseStep == hubPc = "close" /\ hubPc' = "delete"
HubDeleteStep == hubPc = "delete" /\ hubPc' # "delete"

\* What an eviction of connection c may change of the connections: c's queue
\* is closed (first step), then c leaves the registry (second step); nothing
\* else of any connection changes.
EvictCloses(c) ==
    /\ sendClosed' = [sendClosed EXCEPT ![c] = TRUE]
    /\ UNCHANGED <<Clients, FormID, Send, connClosed, wire>>
EvictDeletes(c) ==
    /\ Clients' = Clients \ {c}
    /\ UNCHANGED <<FormID, Send, sendClosed, connClosed, wire>>

\* C4: in a broadcast a visited connection whose queue is full is evicted: its
\* queue is closed, then it is deleted from the registry, and no other
\* connection's registration, topic or queue changes; the loop then goes on
\* with the connections not yet visited and ends only when every connection
\* registered at its start and still registered was visited, each one with
\* room receiving the event.
C4_OverflowEviction ==
    [][/\ \A p \in Procs :
            /\ (BodyStep(p) /\ Stable(bcur[p]) /\ ~HasRoom(bcur[p])
                  /\ TopicMatches(FormID[bcur[p]], bmsg[p].form_id))
                   => (bpc'[p] = "close" /\ Send' = Send)
            /\ (BodyStep(p) /\ Stable(bcur[p]) /\ HasRoom(bcur[p])
                  /\ TopicMatches(FormID[bcur[p]], bmsg[p].form_id))
                   => Send'[bcur[p]] = Append(Send[bcur[p]], bmsg[p])
            /\ CloseStep(p) => EvictCloses(bcur[p])
            /\ DeleteStep(p) =>
                   /\ EvictDeletes(bcur[p])
                   /\ bpc'[p] = "range"
                   /\ bsnap'[p] = bsnap[p] /\ bseen'[p] = bseen[p]
                   /\ bmsg'[p] = bmsg[p]
            /\ ReturnStep(p) => (bsnap[p] \cap Clients) \subseteq bseen[p]
       /\ (HubBodyStep /\ ~HasRoom(hubCur)) => (hubPc' = "close" /\ Send' = Send)
       /\ (HubBodyStep /\ HasRoom(hubCur))
              => Send'[hubCur] = Append(Send[hubCur], hubMsg)
       /\ HubCloseStep => EvictCloses(hubCur)
       /\ HubDeleteStep =>
              /\ EvictDeletes(hubCur)
              /\ hubPc' = "range"
              /\ hubSnap' = hubSnap /\ hubSeen' = hubSeen /\ hubMsg' = hubMsg
       /\ (hubPc = "range" /\ hubPc' = "select")
              => (hubSnap \cap Clients) \subseteq hubSeen
      ]_vars

\* Witness of C4: the broadcast is over; it evicted one connection, whose read
\* loop still runs, and another connection, still registered, holds its event.
C4_Witness ==
    \E c, d \in Conns :
        /\ c # d
        /\ sendClosed[c] /\ c \notin Clients /\ regDone[c]
        /\ rpc[c] \in {"read", "store"} /\ ~HasEvent(c, 1)
        /\ d \in Clients /\ ~sendClosed[d] /\ HasEvent(d, 1)
        /\ nextId = 1 /\ gwait = <<>> /\ hubPc = "select"
        /\ \A p \in Procs : bpc[p] = "idle"
        /\ ~panicked

\* A step of Run's Unregister branch for a client that is not in the registry.
UnregisterAbsentStep ==
    hubPc = "unreg" /\ hubPc' # "unreg" /\ hubArg \notin Clients

\* C5: processing an unregister request for a connection that is not in the
\* registry is a no-op: the hub goes back to its select, the queue is not
\* closed again, nothing panics, and no connection's registration, topic,
\* queue or transport changes.
C5_UnregisterIdempotent ==
    [][UnregisterAbsentStep =>
           /\ hubPc' = "select"
           /\ UNCHANGED <<Clients, FormID, Send, sendClosed, connClosed, wire,
                          panicked>>
      ]_vars

\* Witness of C5: the hub processed the unregister request of a connection it
\* had evicted for overflow before, and found it absent.
C5_Witness ==
    \E c \in Conns :
        /\ unregDone[c] = "absent" /\ regDone[c]
        /\ sendClosed[c] /\ c \notin Clients
        /\ hubPc = "select"
        /\ ~panicked

\* A connection is open: its handler started the loops, its read loop runs,
\* neither its queue nor its transport is closed.
OpenConn(c) ==
    /\ rpc[c] \in {"read", "store"}
    /\ ~sendClosed[c]
    /\ ~connClosed[c]

\* C6 as claimed: in every state every open connection is in the registry.
C6_OpenIsRegistered ==
    \A c \in Conns : OpenConn(c) => c \in Clients

\* C6 as amended: every open connection whose register request the hub has
\* finished processing is in the registry (a key of the map, so once), and a
\* connection whose unregister request the hub has processed is not.
C6_RegisteredWhileOpen ==
    \A c \in Conns :
        /\ (OpenConn(c) /\ regDone[c]) => c \in Clients
        /\ unregDone[c] # "no" => c \notin Clients

\* Witness of C6: one connection is open and registered, the other one's
\* unregister request was processed and removed it.
C6_Witness ==
    \E c, d \in Conns :
        /\ OpenConn(c) /\ regDone[c] /\ c \in Clients
        /\ unregDone[d] = "removed" /\ d \notin Clients
        /\ ~panicked

\* A caller of BroadcastToForm reads client.FormID while the client's read
\* loop stores into it.
TopicRace ==
    \E p \in Procs : bpc[p] = "body" /\ rpc[bcur[p]] = "store"

\* C7: the registry is read and written by one actor at a time: never are two
\* goroutines at the map with one of them writing, and never is a topic read
\* while it is being stored.
C7_SingleDispatcher == ~MapRace /\ ~TopicRace

\* Event i is ahead of event j in what connection c was given.
Before(c, i, j) ==
    \E m, n \in 1..Len(Delivered(c)) :
        /\ m < n
        /\ Delivered(c)[m].type = "event" /\ Delivered(c)[m].id = i
        /\ Delivered(c)[n].type = "event" /\ Delivered(c)[n].id = j

\* C8: the broadcasts reach every connection in the one order in which they
\* were processed: no two connections were given the same two events in
\* opposite orders.
C8_OneProcessingOrder ==
    \A c, d \in Conns : \A i, j \in 1..lim.events :
        ~(Before(c, i, j) /\ Before(d, j, i))

\* A request to the hub waits: a register or unregister request on its
\* channel, or a message on the Broadcast channel.
PendingRequest ==
    \/ \E c \in Conns : rpc[c] \in {"register", "unregister"}
    \/ gwait # <<>>

\* C9: while a request to the hub waits, the hub can take a step, so the
\* request is processed after finitely many of them.
C9_HubServes == PendingRequest => ENABLED HubNext

\* The store of a subscribe_form command, and a loop body of a
\* BroadcastToForm for the topic the visited connection had before its last
\* command.
StoreStep(c) == rpc[c] = "store" /\ rpc'[c] = "read"
PreviousTopicBody(p) ==
    /\ BodyStep(p) /\ Stable(bcur[p])
    /\ prevTopic[bcur[p]] \in Topics
    /\ bmsg[p].form_id = prevTopic[bcur[p]]
    /\ FormID[bcur[p]] # prevTopic[bcur[p]]

\* C10 as claimed: a subscribe_form command with any string replaces the
\* topic, and afterwards no broadcast for the previous topic is enqueued on the
\* connection.
C10_ReplacesTopic ==
    [][/\ \A c \in Conns : StoreStep(c) => FormID'[c] = pendTopic[c]
       /\ \A p \in Procs : PreviousTopicBody(p) => Send' = Send
      ]_vars

\* C10 as amended: a subscribe_form command with a string replaces the topic
\* of its connection, and of no other, with that string. When the string is not
\* empty and differs from the previous topic, broadcasts for the previous
\* topic are no longer enqueued on the connection and those for the new topic
\* are (queue open and with room); when it is empty the topic is unset and the
\* broadcasts of every topic, the previous one too, are enqueued.
C10_ReplacesTopicNonEmpty ==
    [][/\ \A c \in Conns : StoreStep(c) =>
              /\ FormID'[c] = pendTopic[c]
              /\ \A d \in Conns \ {c} : FormID'[d] = FormID[d]
       /\ \A p \in Procs :
              /\ (PreviousTopicBody(p) /\ FormID[bcur[p]] # NoTopic)
                     => Send' = Send
              /\ (PreviousTopicBody(p) /\ FormID[bcur[p]] = NoTopic
                    /\ HasRoom(bcur[p]))
                     => Send'[bcur[p]] = Append(Send[bcur[p]], bmsg[p])
              /\ (BodyStep(p) /\ Stable(bcur[p]) /\ HasRoom(bcur[p])
                    /\ prevTopic[bcur[p]] # FormID[bcur[p]]
                    /\ bmsg[p].form_id = FormID[bcur[p]])
                     => Send'[bcur[p]] = Append(Send[bcur[p]], bmsg[p])
      ]_vars

\* Witness of C10: a connection changed its topic from "A" to "B"; the
\* broadcast for "A" is over, the other connection holds its event and this
\* one, still registered and with room, does not.
C10_Witness ==
    \E c, d \in Clients :
        /\ prevTopic[c] = "A" /\ FormID[c] = "B" /\ Stable(c)
        /\ ~sendClosed[c] /\ HasRoom(c)
        /\ nextId = 1 /\ \A p \in Procs : bpc[p] = "idle"
        /\ \E i \in 1..Len(Delivered(d)) : Delivered(d)[i] = EventMsg("A", 1)
        /\ ~HasEvent(c, 1)
        /\ ~panicked

\* readPump has read a frame that is no well-formed command.
IgnoredStep == nskipped' # nskipped

\* C11: a frame that is not text, is malformed JSON, has an unknown type, or is
\* a subscribe_form whose data is not a string has no effect: no connection's
\* registration, topic, queue, transport or loops change, no store into a
\* topic is started, and nothing panics.
C11_IgnoredFrames ==
    [][IgnoredStep =>
           UNCHANGED <<Clients, FormID, Send, sendClosed, connClosed, wire, rpc,
                       pendTopic, wpc, prevTopic, panicked>>
      ]_vars

\* Witness of C11: the only connection, subscribed to "A", has read a frame
\* that is no well-formed command and is still open, registered and
\* subscribed to "A".
C11_Witness ==
    \E c \in Clients :
        /\ \A d \in Conns \ {c} : rpc[d] = "none"
        /\ nskipped = 1 /\ nframes = 2
        /\ OpenConn(c) /\ FormID[c] = "A" /\ Stable(c)
        /\ ~panicked

\* C12: a ping read by a read loop is answered with a pong on its queue or,
\* the queue being full, dropped: in no state does the handling of a ping
\* end in a panic.
C12_PingAnswered ==
    \A c \in Conns : ~ENABLED (ReadPing(c) /\ panicked')

\* C13: the handler of a new connection enqueues the greeting on its queue
\* or, the queue being full, drops it: in no state does the sending of the
\* greeting end in a panic.
C13_GreetingSent ==
    \A c \in Conns : ~ENABLED (Greeting(c) /\ panicked')

\* A socket's onopen ran; a socket's onclose ran.
OpenStep == \E s \in Sockets : wsState[s] = "connecting" /\ wsState'[s] = "open"
SocketCloseStep ==
    \E s \in Sockets : wsState[s] # "closed" /\ wsState'[s] = "closed"

\* C14: the reconnect counter is the number of reconnects scheduled since the
\* last successful open and is always between 0 and 5; every successful open
\* resets it to 0; when it is 5, a close schedules no connection attempt and
\* makes no socket.
C14_BoundedReconnect ==
    [][/\ reconnectAttempts' \in 0..maxReconnectAttempts
       /\ reconnectAttempts' = sinceOpen'
       /\ OpenStep => reconnectAttempts' = 0
       /\ (SocketCloseStep /\ reconnectAttempts = maxReconnectAttempts)
              => /\ timers' = timers
                 /\ nsock' = nsock
                 /\ reconnectAttempts' = reconnectAttempts
      ]_vars

\* Witness of C14: five reconnects in a row failed; the socket of the fifth
\* closed as well and nothing is scheduled.
C14_Witness ==
    /\ reconnectAttempts = maxReconnectAttempts
    /\ sinceOpen = maxReconnectAttempts
    /\ nsock = maxReconnectAttempts + 1
    /\ \A s \in 1..nsock : wsState[s] = "closed"
    /\ timers = 0

\* The summary is complete and no response was stored before or during its
\* computation.
EmptySummary == apc = "done" /\ db = <<>>

\* The rates of the summary that are quotients.
SummaryRates ==
    {completion.rate, completion.avgTime}
      \cup {fieldAnalytics[j].response_rate : j \in DOMAIN fieldAnalytics}
      \cup {fieldAnalytics[j].skip_rate : j \in DOMAIN fieldAnalytics}

\* C15: the summary of a form without responses has total 0, completion rate 0,
\* average completion time 0 and exactly 7 trend entries of count 0, and no
\* quotient of it has a zero divisor.
C15_EmptySummary ==
    EmptySummary =>
        /\ total = 0
        /\ completion.rate = Zero
        /\ completion.avgTime = Zero
        /\ Len(trends) = 7
        /\ \A j \in DOMAIN trends : trends[j].count = 0
        /\ \A q \in SummaryRates : q.den # 0

C15_Witness ==
    /\ EmptySummary
    /\ Len(trends) = 7
    /\ Len(fieldAnalytics) = Len(fields)
    /\ \E k \in Days : dayLen[k] = 25

\* C16, as stated: the summary of a form without responses has every rate at
\* 0, the response rate and the skip rate of every field included.
C16_AllRatesZero ==
    EmptySummary =>
        /\ completion.rate = Zero
        /\ \A j \in DOMAIN fieldAnalytics :
              /\ fieldAnalytics[j].response_rate = Zero
              /\ fieldAnalytics[j].skip_rate = Zero

\* C16, amended: the summary of a form without responses has completion rate 0
\* and average completion time 0, and for every field of the form a response
\* rate of 0 and a skip rate of 100.
C16_EmptyRates ==
    EmptySummary =>
        /\ completion.rate = Zero
        /\ completion.avgTime = Zero
        /\ Len(fieldAnalytics) = Len(fields)
        /\ \A j \in DOMAIN fieldAnalytics :
              /\ fieldAnalytics[j].response_rate = Zero
              /\ fieldAnalytics[j].skip_rate = Hundred

C16_Witness ==
    /\ EmptySummary
    /\ Len(fieldAnalytics) = 2
    /\ fieldAnalytics[1].field_type = "rating"
    /\ fieldAnalytics[2].skip_rate = Hundred

\* The trend list has 7 entries, for the calendar days from 6 days ago to
\* today in this order, each with the count of the responses created in the 24
\* hours from the local midnight of its day.
TrendsShape ==
    /\ Len(trends) = 7
    /\ \A j \in 1..7 :
          /\ trends[j].date = 7 - j
          /\ trends[j].count = CountBetween(StartOfDay(7 - j),
                                            StartOfDay(7 - j) + 24)

\* The responses created within the 7 calendar days of the trend list: from
\* the local midnight 6 days ago on (none is created after now).
InTrendWindow == {j \in 1..Len(db) : Midnight(6) <= db[j].t}

\* C17: the trend list of a summary has exactly 7 entries, one per calendar day
\* from oldest to newest ending with today, each counting the responses of
\* [dayStart, dayStart + 24h), and the 7 counts sum to the number of responses
\* created within the 7-day window.
C17_TrendsSum ==
    apc = "done" =>
        /\ TrendsShape
        /\ SumOver([j \in 1..7 |-> trends[j].count], 1..7)
              = Cardinality(InTrendWindow)

\* The step on which calculateCompletionMetrics reads the responses and returns.
CompletionStep == apc = "completion" /\ apc' # "completion"

\* Every field marked required has a present, non-null value other than the
\* empty string in the response r.
HasAllRequired(r) ==
    \A j \in 1..Len(fields) :
        fields[j].required =>
            /\ r.ans[fields[j].id].k \notin {"absent", "null"}
            /\ ~(r.ans[fields[j].id].k = "str" /\ r.ans[fields[j].id].s = "")

\* C18: the completion rate is the number of responses that have a present,
\* non-null, non-empty value for every required field, divided by the number of
\* responses, times 100, or 0 when there is no response; it lies in 0..100.
C18_CompletionRate ==
    [][CompletionStep =>
        LET n == Cardinality({j \in 1..Len(db) : HasAllRequired(db[j])})
        IN /\ Len(db) = 0 => completion'.rate = Zero
           /\ Len(db) > 0 => /\ completion'.rate.den # 0
                             /\ RatEq(completion'.rate, Rat(n * 100, Len(db)))
           /\ RatLe(Zero, completion'.rate)
           /\ RatLe(completion'.rate, Hundred)]_vars

C18_Witness ==
    /\ apc = "fieldCount" /\ fidx = 1 /\ fieldAnalytics = <<>> /\ ninserts = 0
    /\ Len(db) = 2
    /\ fields[1].required /\ ~fields[2].required
    /\ db[1].ans["f1"] = Str("") /\ ~HasAllRequired(db[1])
    /\ db[2].ans["f1"] = Str("a") /\ db[2].ans["f2"] = Null /\ HasAllRequired(db[2])
    /\ completion.rate = Rat(100, 2)

\* C19: in every summary, also one computed while responses are inserted,
\* every field's response rate is the field's count of answered responses over
\* the total, times 100, its skip rate is 100 minus the response rate, and both
\* lie in 0..100.
C19_FieldRates ==
    \A j \in DOMAIN fieldAnalytics :
        LET r == fieldAnalytics[j] IN
        /\ total > 0 => \E n \in 0..total : RatEq(r.response_rate, Percent(n, total))
        /\ RatEq(r.skip_rate, HundredMinus(r.response_rate))
        /\ RatLe(Zero, r.response_rate) /\ RatLe(r.response_rate, Hundred)
        /\ RatLe(Zero, r.skip_rate) /\ RatLe(r.skip_rate, Hundred)

\* The responses with a present, non-null, non-empty value for the rating
\* field, those of them whose value is a number, and the sum of these numbers
\* (in halves).
RatingAnswers ==
    {j \in 1..Len(db) : db[j].ans["f1"] \notin {Absent, Null, Str("")}}
RatingNumbers == {j \in RatingAnswers : db[j].ans["f1"].k = "num"}
RatingSum == SumOver([j \in 1..Len(db) |-> db[j].ans["f1"].n], RatingNumbers)

\* The summary of the rating field is complete.
RatingDone ==
    /\ apc = "done" /\ Len(fieldAnalytics) = 1
    /\ fieldAnalytics[1].field_type = "rating"

\* common_responses is the list, without repetition, of the ratings r of 1..5
\* with cnt[r] > 0, each with cnt[r] and cnt[r] / answered x 100.
EntriesAre(cnt) ==
    LET es == fieldAnalytics[1].common_responses IN
    /\ Len(es) = Cardinality({r \in 1..5 : cnt[r] > 0})
    /\ \A r \in 1..5 : cnt[r] > 0 =>
          \E e \in DOMAIN es :
              /\ es[e].value = Num(2 * r)
              /\ es[e].count = cnt[r]
              /\ RatEq(es[e].percentage,
                       Rat(cnt[r] * 100, Cardinality(RatingAnswers)))

\* C20, as stated: for a rating field with answers, average_rating is the mean
\* of the answered values and common_responses has one entry for each rating
\* 1..5 that occurs among the answers, with its count and its percentage of
\* the answered responses.
C20_RatingExact ==
    (RatingDone /\ RatingAnswers # {}) =>
        /\ fieldAnalytics[1].average_rating.has
        /\ RatingNumbers = RatingAnswers =>
              RatEq(fieldAnalytics[1].average_rating.value,
                    Rat(RatingSum, 2 * Cardinality(RatingAnswers)))
        /\ EntriesAre([r \in 1..5 |->
              Cardinality({j \in RatingAnswers : db[j].ans["f1"] = Num(2 * r)})])

\* C20, amended: average_rating is the mean of the answered values that are
\* numbers and is absent when there is none; common_responses has one entry
\* for each r of 1..5 that is the integer part of some numeric answer, with the
\* count of these answers and its percentage of all the answered responses.
C20_RatingBuckets ==
    RatingDone =>
        /\ fieldAnalytics[1].average_rating.has = (RatingNumbers # {})
        /\ RatingNumbers # {} =>
              RatEq(fieldAnalytics[1].average_rating.value,
                    Rat(RatingSum, 2 * Cardinality(RatingNumbers)))
        /\ EntriesAre([r \in 1..5 |->
              Cardinality({j \in RatingNumbers :
                  /\ 2 * r <= db[j].ans["f1"].n
                  /\ db[j].ans["f1"].n < 2 * r + 2})])

C20_Witness ==
    /\ RatingDone
    /\ fields[1].required
    /\ [j \in 1..Len(db) |-> db[j].ans["f1"]] = <<Num(10), Num(10), Num(6), Num(2)>>
    /\ RatEq(fieldAnalytics[1].response_rate, Hundred)
    /\ RatEq(fieldAnalytics[1].average_rating.value, Rat(7, 2))
    /\ LET es == fieldAnalytics[1].common_responses IN
         /\ Len(es) = 3
         /\ es[1].value = Num(2) /\ es[1].count = 1 /\ RatEq(es[1].percentage, Rat(25, 1))
         /\ es[2].value = Num(6) /\ es[2].count = 1 /\ RatEq(es[2].percentage, Rat(25, 1))
         /\ es[3].value = Num(10) /\ es[3].count = 2 /\ RatEq(es[3].percentage, Rat(50, 1))

\* The step on which the aggregation of a choice or text field returns and the
\* field's result is appended.
GroupedStep ==
    /\ apc = "fieldDetail" /\ apc' # "fieldDetail"
    /\ fields[fidx].type \in ChoiceTypes \cup TextTypes

\* C21: common_responses of a choice or text field lists distinct answered
\* values in non-increasing order of count, at most 10 of them (5 for text
\* fields), each with its count and with percentage = count / (answered
\* responses of the field) x 100, and no value left out is more frequent than
\* one listed.
C21_TopK ==
    [][GroupedStep =>
        LET id == fields[fidx].id
            K == IF fields[fidx].type \in ChoiceTypes THEN 10 ELSE 5
            A == {j \in 1..Len(db) : db[j].ans[id] \notin {Absent, Null, Str("")}}
            V == {db[j].ans[id] : j \in A}
            N(v) == Cardinality({j \in A : db[j].ans[id] = v})
            es == fieldAnalytics'[fidx].common_responses
        IN /\ Len(es) = (IF Cardinality(V) < K THEN Cardinality(V) ELSE K)
           /\ \A a, b \in DOMAIN es : a < b =>
                 /\ es[a].value # es[b].value
                 /\ es[a].count >= es[b].count
           /\ \A e \in DOMAIN es :
                 /\ es[e].value \in V
                 /\ es[e].count = N(es[e].value)
                 /\ es[e].percentage.den # 0
                 /\ RatEq(es[e].percentage, Rat(es[e].count * 100, Cardinality(A)))
           /\ \A v \in V : (\A e \in DOMAIN es : es[e].value # v) =>
                 \A e \in DOMAIN es : N(v) <= es[e].count]_vars

\* The number of fields the response r answers: the keys of its map whose value
\* is neither null nor the empty string.
AnsweredFields(r) ==
    Cardinality({f \in DOMAIN r.ans : r.ans[f] \notin {Absent, Null, Str("")}})

\* C22: the average completion time is the mean over the responses of 10
\* seconds times the number of fields the response answers, a null or empty
\* value not counting as an answer.
C22_AverageTime ==
    [][(CompletionStep /\ Len(db) > 0) =>
        /\ completion'.avgTime.den # 0
        /\ RatEq(completion'.avgTime,
                 Rat(SumOver([j \in 1..Len(db) |-> 10 * AnsweredFields(db[j])],
                             1..Len(db)),
                     Len(db)))]_vars

\* The step on which the deferred function of readPump of c starts its send on
\* Unregister.
UnregisterRequest(c) == rpc[c] # "unregister" /\ rpc'[c] = "unregister"

\* Run is in its Unregister branch, about to close a queue that is closed.
SecondCloseByUnregister == hubPc = "unregClose" /\ sendClosed[hubArg]

\* C23: a connection requests unregister once, when its read loop ends,
\* whatever ended it, and never again; and the request never leads to a second
\* close of its queue.
C23_UnregisterOnce ==
    [][/\ \A c \in Conns : UnregisterRequest(c) =>
              /\ rpc[c] = "read"
              /\ unregDone[c] = "no"
       /\ ~SecondCloseByUnregister']_vars

\* The connection is closing: its queue was closed, or its read or its write
\* on the transport failed.
Closing(c) ==
    \/ sendClosed[c]
    \/ rpc[c] \in {"unregister", "closing", "done"}
    \/ wpc[c] = "done"

\* The connection is closed: both loops have returned, the transport is closed
\* and the client is not in the registry.
Closed(c) ==
    /\ rpc[c] = "done" /\ wpc[c] = "done"
    /\ connClosed[c]
    /\ c \notin Clients

\* C24: a closing connection reaches Closed: as long as it has not, some
\* goroutine of the process can take a step (none of its loops is left blocked
\* for good on the hub or on the queue).
C24_ClosingProgresses ==
    \A c \in Conns : (Closing(c) /\ ~Closed(c)) => ENABLED NextQuiet

\* The step on which a frame of the peer is received, and the step on which
\* the read fails on the deadline.
ReceiveStep == hbFrames' = hbFrames + 1
TimeoutStep == hbPc = "read" /\ hbPc' = "unregister"

\* C25, as stated: every frame or pong received sets the read deadline a full
\* period ahead; the read fails once the deadline has passed, and only on a
\* connection from which nothing was received for a full period.
C25_EveryFrameExtends ==
    [][/\ ReceiveStep => hbDeadline' = hbClock + ReadWait
       /\ TimeoutStep => hbClock - hbLastAny >= ReadWait
       /\ (hbPc = "read" /\ hbClock >= hbDeadline) => ENABLED HbTimeout]_vars

\* C25, amended: every data frame (text or binary) or pong received sets the
\* read deadline a full period ahead and a ping control frame leaves it; the
\* read fails once the deadline has passed, and only on a connection from which
\* no data frame or pong was received for a full period.
C25_DataOrPongExtends ==
    [][/\ (ReceiveStep /\ hbKind' # "ping") => hbDeadline' = hbClock + ReadWait
       /\ (ReceiveStep /\ hbKind' = "ping") => hbDeadline' = hbDeadline
       /\ TimeoutStep => hbClock - hbLastData >= ReadWait
       /\ (hbPc = "read" /\ hbClock >= hbDeadline) =>
             /\ ENABLED HbTimeout
             /\ ~ENABLED HbTick
             /\ hbDeadline = hbLastData + ReadWait]_vars

C25_Witness ==
    /\ hbPc = "unregister"
    /\ hbFrames = 3
    /\ hbKind = "ping"
    /\ hbLastData > 0
    /\ hbClock = hbLastData + ReadWait
    /\ hbClock - hbLastAny < ReadWait

\* C26: no goroutine ever sends on a closed outbound queue: not readPump with
\* a pong, not the handler with the greeting, not Run with a broadcast, not a
\* BroadcastToForm caller.
C26_NoSendOnClosed ==
    /\ \A c \in Conns : ~ENABLED (ReadPing(c) /\ sendClosed[c] /\ panicked')
    /\ \A c \in Conns : ~ENABLED (Greeting(c) /\ sendClosed[c] /\ panicked')
    /\ ~ENABLED (HubBody /\ sendClosed[hubCur] /\ panicked')
    /\ \A p \in Procs : ~ENABLED (BtfBody(p) /\ sendClosed[bcur[p]] /\ panicked')

\* C27: no outbound queue is closed twice: neither the Unregister branch of
\* Run, nor its overflow branch, nor the overflow branch of a BroadcastToForm
\* call ever executes close(client.Send) on a closed queue.
C27_ClosedAtMostOnce ==
    /\ ~(hubPc = "unregClose" /\ ENABLED (HubUnregClose /\ panicked'))
    /\ ~(hubPc = "close" /\ ENABLED (HubClose /\ panicked'))
    /\ \A p \in Procs : ~(bpc[p] = "close" /\ ENABLED (BtfClose(p) /\ panicked'))

\* The goroutines that are inside an operation on the registry: Run outside its
\* select, and the BroadcastToForm callers.
AtRegistry ==
    (IF hubPc # "select" THEN {HubId} ELSE {}) \cup {p \in Procs : bpc[p] # "idle"}

\* C28: a registered connection is in the registry iff its queue is open:
\* removal and close happen together, that is, the registry and the queue
\* disagree only inside the removal, with no other goroutine at the registry.
C28_RegistryIffOpen ==
    \A c \in Conns :
        (regDone[c] /\ ~((c \in Clients) <=> ~sendClosed[c])) =>
            /\ ~panicked
            /\ Cardinality(AtRegistry) = 1

\* The reasons for which a submission is rejected: an invalid form id or
\* body, a form that is missing or not published, a required field missing
\* or empty, a rating outside 1..5.
RejectReason(req, fs) ==
    \/ ~req.idOk
    \/ ~req.bodyOk
    \/ ~req.published
    \/ \E j \in 1..Len(fs) :
          \/ fs[j].required /\ req.ans[fs[j].id] \in {Absent, Null, Str("")}
          \/ /\ fs[j].type = "rating"
             /\ req.ans[fs[j].id].k = "num"
             /\ (req.ans[fs[j].id].n < 2 \/ req.ans[fs[j].id].n > 10)

SubmitTypes == {"response_submitted", "analytics_updated"}

\* The events of the controllers that are queued for, or were written to, c.
Enqueued(c) ==
    {i \in 1..Len(Delivered(c)) : Delivered(c)[i].type \in SubmitTypes}

\* A step that queues an event of the controllers on some connection.
EnqueueStep ==
    \E c \in Conns : Len(Delivered(c)') > Len(Delivered(c))
                     /\ Delivered(c)'[Len(Delivered(c)')].type \in SubmitTypes

\* Every event being broadcast or queued announces a stored response of the
\* form, and analytics_updated for a response is broadcast only after the
\* broadcast of its response_submitted has returned, so that it never
\* precedes it in a queue.
AnnouncedStored ==
    /\ \A p \in Procs : bmsg[p].type \in SubmitTypes
          => /\ bmsg[p].id \in 1..Len(db)
             /\ bmsg[p].form_id = SubmitForm
    /\ \A c \in Conns : \A i \in Enqueued(c) :
          /\ Delivered(c)[i].id \in 1..Len(db)
          /\ Delivered(c)[i].form_id = SubmitForm
          /\ Delivered(c)[i].type = "analytics_updated"
                => /\ \A p \in Procs : bmsg[p] #
                         SubmitMsg("response_submitted", SubmitForm,
                                   Delivered(c)[i].id)
                   /\ \A j \in Enqueued(c) :
                         (j > i /\ Delivered(c)[j].id = Delivered(c)[i].id)
                            => Delivered(c)[j].type = "analytics_updated"
    /\ \A k \in upc : k \in 1..Len(db)

\* C29: a rejected submission stores no response and queues no event on any
\* connection: the step that rejects changes neither the collection nor a
\* queue nor starts a broadcast, a response is stored only for a request
\* with no reason for rejection, and the handler of a rejected request does
\* nothing more; response_submitted, and later analytics_updated, are
\* broadcast only for a stored response.
C29_RejectedStoresNothing ==
    [][/\ (spc = "parse" /\ spc' # "parse" /\ RejectReason(sreq, fields))
            => /\ spc' = "rejected"
               /\ db' = db /\ Send' = Send /\ wire' = wire /\ bmsg' = bmsg
               /\ upc' = upc
       /\ db' # db
            => /\ ~RejectReason(sreq, fields)
               /\ db' = Append(db, Response(nowT, sreq.ans))
       /\ (spc = "rejected" /\ spc' # "rejected") => spc' = "parse"
       /\ (spc = "rejected" /\ EnqueueStep)
            => \E p \in Procs : bpc[p] = "body" /\ bmsg[p].id \in 1..Len(db)
       /\ AnnouncedStored']_vars

\* A first request was stored and both its events were written to the
\* connection in order, and a second request was rejected.
C29_Witness ==
    /\ spc = "rejected"
    /\ nsub = 2
    /\ Len(db) = 1
    /\ RejectReason(sreq, fields)
    /\ \E c \in Conns : \E i, j \in 1..Len(wire[c]) :
          /\ i < j
          /\ wire[c][i] = SubmitMsg("response_submitted", SubmitForm, 1)
          /\ wire[c][j] = SubmitMsg("analytics_updated", SubmitForm, 1)

\* Socket s was closed by the client's own disconnect() call.
ClosedByDisconnect(s) == wsState[s] = "closing"

\* A close leaves the reconnect counter and the scheduled attempts alone.
NoReconnect == reconnectAttempts' = reconnectAttempts /\ timers' = timers

\* C30: a close event with code 1000, and the close event of a socket that
\* the client's own disconnect() closed, schedules no reconnect attempt and
\* leaves the reconnect counter alone; every other close event with fewer
\* than 5 attempts used schedules exactly one attempt and counts it.
C30_ManualCloseNoReconnect ==
    [][\A s \in Sockets, code \in CloseCodes :
          OnClose(s, code) =>
             IF code = 1000 \/ ClosedByDisconnect(s)
             THEN NoReconnect
             ELSE IF reconnectAttempts < maxReconnectAttempts
                  THEN /\ timers' = timers + 1
                       /\ reconnectAttempts' = reconnectAttempts + 1
                  ELSE NoReconnect]_vars

====
